---- MODULE Spec2Model ----
(***************************************************************************)
(* Model of the qm2 quiz core: the session engine of                       *)
(* src/qm2/core/engine.py with the score file it appends to                *)
(* (src/qm2/utils/files.py, src/qm2/core/scores.py), and the CSV <-> JSON  *)
(* converter of src/qm2/core/import_export.py.                             *)
(*                                                                         *)
(* Text is modelled as a sequence of one-character strings, so that        *)
(* strip(), lower(), split() and the list/dict renderings are computed.    *)
(* Time is counted in whole seconds.                                       *)
(***************************************************************************)
EXTENDS Integers, Sequences, FiniteSets, TLC

\* ------------------------------------------------------------------ bounds
MaxQuestions == 2          \* longest question list handed to quiz_session
MaxSessions == 1           \* quiz_session calls per behaviour
DelayStep == 35            \* seconds a user may take before typing a line

\* ------------------------------------------------------- program constants
remaining_time == 60       \* per-question budget, engine.py:94,134,188

Delays == {0, DelayStep}

\* ------------------------------------------------------------------- text
ToLower(c) ==
    CASE c = "X" -> "x"
      [] c = "A" -> "a"
      [] c = "B" -> "b"
      [] c = "P" -> "p"
      [] OTHER -> c

lower(s) == [n \in 1..Len(s) |-> ToLower(s[n])]

IsSpace(c) == c \in {" ", "\t", "\n", "\r"}

RECURSIVE lstrip(_)
lstrip(s) == IF s # <<>> /\ IsSpace(Head(s)) THEN lstrip(Tail(s)) ELSE s

RECURSIVE rstrip(_)
rstrip(s) ==
    IF s # <<>> /\ IsSpace(s[Len(s)]) THEN rstrip(SubSeq(s, 1, Len(s) - 1)) ELSE s

strip(s) == rstrip(lstrip(s))

\* chr(97 + n) for the small n a matching question uses
chr97(n) == <<"a", "b", "c", "d">>[n + 1]

\* string.ascii_lowercase[:n] as a sequence of one-letter lines
ascii_lowercase(n) == [k \in 1..n |-> <<chr97(k - 1)>>]

\* every ordering random.shuffle can leave a list in
Shuffles(s) ==
    { [k \in 1..Len(s) |-> s[p[k]]] : p \in Permutations(1..Len(s)) }

RECURSIVE IndexOf(_, _)
IndexOf(s, x) == IF Head(s) = x THEN 1 ELSE 1 + IndexOf(Tail(s), x)

InSeq(s, x) == \E n \in 1..Len(s) : s[n] = x

\* ------------------------------------------------------- question records
\* A question is what json.load gives for one array element.  isdict is
\* isinstance(q, dict); keys are the keys present; pairs.isdict tells a
\* mapping from any other JSON value; answers is the insertion-ordered
\* mapping as a sequence of <<key, value>>.
NoPairs == [isdict |-> TRUE, left |-> <<>>, right |-> <<>>, answers |-> <<>>]

Q_multiple ==
    [isdict |-> TRUE, keys |-> {"type", "question", "correct", "wrong_answers"},
     type |-> "multiple", correct |-> <<"P">>, wrong_answers |-> << <<"L">> >>,
     pairs |-> NoPairs]

Q_fillin ==
    [isdict |-> TRUE, keys |-> {"type", "question", "correct", "wrong_answers"},
     type |-> "fillin", correct |-> <<"p">>, wrong_answers |-> <<>>,
     pairs |-> NoPairs]

Q_match ==
    [isdict |-> TRUE, keys |-> {"type", "question", "pairs"},
     type |-> "match", correct |-> <<>>, wrong_answers |-> <<>>,
     pairs |-> [isdict |-> TRUE, left |-> << <<"A">>, <<"B">> >>,
                right |-> << <<"1">>, <<"2">> >>,
                answers |-> << <<"a", <<"1">> >>, <<"b", <<"2">> >> >>]]

\* `match` with two left items and one entry in answers
Q_match_short ==
    [isdict |-> TRUE, keys |-> {"type", "question", "pairs"},
     type |-> "match", correct |-> <<>>, wrong_answers |-> <<>>,
     pairs |-> [isdict |-> TRUE, left |-> << <<"A">>, <<"B">> >>,
                right |-> << <<"1">>, <<"2">> >>,
                answers |-> << <<"a", <<"1">> >> >>]]

\* a type no handler is dispatched for, with a `correct` field
Q_essay ==
    [isdict |-> TRUE, keys |-> {"type", "question", "correct"},
     type |-> "essay", correct |-> <<"P">>, wrong_answers |-> <<>>,
     pairs |-> NoPairs]

\* `multiple` with type, question and correct but no wrong_answers
Q_no_wrong ==
    [isdict |-> TRUE, keys |-> {"type", "question", "correct"},
     type |-> "multiple", correct |-> <<"P">>, wrong_answers |-> <<>>,
     pairs |-> NoPairs]

\* `multiple` without correct
Q_no_correct ==
    [isdict |-> TRUE, keys |-> {"type", "question"},
     type |-> "multiple", correct |-> <<>>, wrong_answers |-> <<>>,
     pairs |-> NoPairs]

\* `match` whose pairs is the string "invalid"
Q_pairs_str ==
    [isdict |-> TRUE, keys |-> {"type", "question", "pairs"},
     type |-> "match", correct |-> <<>>, wrong_answers |-> <<>>,
     pairs |-> [isdict |-> FALSE, left |-> <<>>, right |-> <<>>, answers |-> <<>>]]

\* the array element "not a dict"
Q_not_dict ==
    [isdict |-> FALSE, keys |-> {}, type |-> "", correct |-> <<>>,
     wrong_answers |-> <<>>, pairs |-> NoPairs]

QuestionPool ==
    <<Q_multiple, Q_fillin, Q_match, Q_match_short, Q_essay, Q_no_wrong,
      Q_no_correct, Q_pairs_str, Q_not_dict>>

\* The lists handed to quiz_session.  quiz_session shuffles its own copy of
\* the valid records, so the lists are enumerated up to the order of their
\* elements: one list per multiset of at most MaxQuestions pool records.
QuestionLists ==
    UNION { { [k \in 1..n |-> QuestionPool[f[k]]] :
                f \in { g \in [1..n -> 1..Len(QuestionPool)] :
                          \A k \in 1..(n - 1) : g[k] <= g[k + 1] } } :
            n \in 0..MaxQuestions }

\* the predicate of section 3 of the specification, stated on the record
SpecValid(q) ==
    /\ q.isdict
    /\ "type" \in q.keys
    /\ "question" \in q.keys
    /\ IF q.type = "match"
       THEN /\ "pairs" \in q.keys
            /\ q.pairs.isdict
            /\ q.pairs.left # <<>>
            /\ q.pairs.right # <<>>
            /\ q.pairs.answers # <<>>
       ELSE "correct" \in q.keys

\* _is_valid_question: "True", "False", or the exception it raises
_is_valid_question(q) ==
    IF ~q.isdict THEN "False"
    ELSE IF "type" \notin q.keys \/ "question" \notin q.keys THEN "False"
    ELSE IF q.type = "match"
         THEN LET pairs == IF "pairs" \in q.keys THEN q.pairs ELSE NoPairs
              IN  IF ~pairs.isdict THEN "AttributeError"
                  ELSE IF pairs.left # <<>> /\ pairs.right # <<>>
                          /\ pairs.answers # <<>>
                       THEN "True" ELSE "False"
    ELSE IF "correct" \in q.keys THEN "True" ELSE "False"


\* ------------------------------------------------- text of the converter
\* characters in ASCII order, for the string comparison behind sorted()
AsciiChars ==
    <<"\t", "\n", " ", "\"", "'", ",", "/", "0", "1", "2", "3", "4", "5", "6",
      "7", "8", "9", ":", "A", "B", "L", "P", "Q", "T", "X", "[", "]", "_",
      "a", "b", "c", "d", "e", "f", "g", "h", "i", "l", "m", "n", "o", "p",
      "q", "r", "s", "t", "u", "w", "x", "y", "{", "|", "}">>

Ord(c) == CHOOSE n \in 1..Len(AsciiChars) : AsciiChars[n] = c

\* a < b for Python strings
RECURSIVE StrLess(_, _)
StrLess(a, b) ==
    IF a = <<>> THEN b # <<>>
    ELSE IF b = <<>> THEN FALSE
    ELSE IF Head(a) = Head(b) THEN StrLess(Tail(a), Tail(b))
    ELSE Ord(Head(a)) < Ord(Head(b))

\* sorted(names) for a set of distinct strings
RECURSIVE sorted(_)
sorted(S) ==
    IF S = {} THEN <<>>
    ELSE LET m == CHOOSE x \in S : \A y \in S \ {x} : StrLess(x, y)
         IN  <<m>> \o sorted(S \ {m})

\* c in s
Contains(s, c) == \E n \in 1..Len(s) : s[n] = c

\* s.startswith(p)
StartsWith(s, p) == Len(s) >= Len(p) /\ SubSeq(s, 1, Len(p)) = p

\* s.split(c)
RECURSIVE Split(_, _)
Split(s, c) ==
    IF ~Contains(s, c) THEN <<s>>
    ELSE LET n == CHOOSE m \in 1..Len(s) :
                     s[m] = c /\ \A j \in 1..(m - 1) : s[j] # c
         IN  <<SubSeq(s, 1, n - 1)>> \o Split(SubSeq(s, n + 1, Len(s)), c)

\* s.split(c, 1)
SplitOnce(s, c) ==
    LET n == CHOOSE m \in 1..Len(s) : s[m] = c /\ \A j \in 1..(m - 1) : s[j] # c
    IN  <<SubSeq(s, 1, n - 1), SubSeq(s, n + 1, Len(s))>>

\* sep.join(xs)
RECURSIVE Join(_, _)
Join(xs, sep) ==
    IF xs = <<>> THEN <<>>
    ELSE IF Len(xs) = 1 THEN xs[1]
    ELSE xs[1] \o sep \o Join(Tail(xs), sep)

\* s.strip('"')
RECURSIVE StripQuotes(_)
StripQuotes(s) ==
    IF s # <<>> /\ Head(s) = "\"" THEN StripQuotes(Tail(s))
    ELSE IF s # <<>> /\ s[Len(s)] = "\"" THEN StripQuotes(SubSeq(s, 1, Len(s) - 1))
    ELSE s

\* column and type names
n_type == <<"t", "y", "p", "e">>
n_question == <<"q", "u", "e", "s", "t", "i", "o", "n">>
n_correct == <<"c", "o", "r", "r", "e", "c", "t">>
n_wrong_answers == <<"w", "r", "o", "n", "g", "_", "a", "n", "s", "w", "e", "r", "s">>
n_left == <<"l", "e", "f", "t">>
n_right == <<"r", "i", "g", "h", "t">>
n_answers == <<"a", "n", "s", "w", "e", "r", "s">>
n_pairs == <<"p", "a", "i", "r", "s">>
t_match == <<"m", "a", "t", "c", "h">>
t_multiple == <<"m", "u", "l", "t", "i", "p", "l", "e">>
t_truefalse == <<"t", "r", "u", "e", "f", "a", "l", "s", "e">>
t_fillin == <<"f", "i", "l", "l", "i", "n">>

\* ------------------------------------------------------------ JSON values
\* A JSON value: a string (v its characters), a list (v its items) or an
\* object (v its <<key, value>> entries in insertion order); an int is what
\* ast.literal_eval makes of a digit string.
VStr(s) == [kind |-> "str", v |-> s]
VInt(s) == [kind |-> "int", v |-> s]
VList(items) == [kind |-> "list", v |-> items]
VDict(entries) == [kind |-> "dict", v |-> entries]

Strs(xs) == VList([n \in 1..Len(xs) |-> VStr(xs[n])])

\* k in d, d[k], d[k] = x, d.pop(k, None), d.keys() on the entries of an object
Has(d, k) == \E n \in 1..Len(d) : d[n][1] = k
Get(d, k) == d[CHOOSE n \in 1..Len(d) : d[n][1] = k][2]
Put(d, k, x) ==
    IF Has(d, k)
    THEN [n \in 1..Len(d) |-> IF d[n][1] = k THEN <<k, x>> ELSE d[n]]
    ELSE Append(d, <<k, x>>)
Pop(d, k) == SelectSeq(d, LAMBDA en : en[1] # k)
Keys(d) == {d[n][1] : n \in 1..Len(d)}

\* bool(x) for a value
Truthy(x) == x.v # <<>>

\* two objects with the same keys and the same value under each key
SameDict(a, b) ==
    /\ a.kind = "dict"
    /\ b.kind = "dict"
    /\ Keys(a.v) = Keys(b.v)
    /\ \A k \in Keys(a.v) : Get(a.v, k) = Get(b.v, k)

\* str(x) for the cell csv.DictWriter writes: a string as it is, a list or
\* an object by its repr (strings here hold no quote or backslash)
RECURSIVE py_str(_), py_repr(_), py_repr_items(_), py_repr_entries(_)
py_repr(x) ==
    CASE x.kind = "str" -> <<"'">> \o x.v \o <<"'">>
      [] x.kind = "int" -> x.v
      [] x.kind = "list" -> <<"[">> \o py_repr_items(x.v) \o <<"]">>
      [] x.kind = "dict" -> <<"{">> \o py_repr_entries(x.v) \o <<"}">>
py_repr_items(xs) ==
    IF xs = <<>> THEN <<>>
    ELSE IF Len(xs) = 1 THEN py_repr(xs[1])
    ELSE py_repr(xs[1]) \o <<",", " ">> \o py_repr_items(Tail(xs))
py_repr_entries(es) ==
    IF es = <<>> THEN <<>>
    ELSE LET one == <<"'">> \o es[1][1] \o <<"'", ":", " ">> \o py_repr(es[1][2])
         IN  IF Len(es) = 1 THEN one
             ELSE one \o <<",", " ">> \o py_repr_entries(Tail(es))
py_str(x) == IF x.kind = "str" THEN x.v ELSE py_repr(x)

\* json.dumps(x)
RECURSIVE json_dumps(_), json_dumps_items(_), json_dumps_entries(_)
json_dumps(x) ==
    CASE x.kind = "str" -> <<"\"">> \o x.v \o <<"\"">>
      [] x.kind = "int" -> x.v
      [] x.kind = "list" -> <<"[">> \o json_dumps_items(x.v) \o <<"]">>
      [] x.kind = "dict" -> <<"{">> \o json_dumps_entries(x.v) \o <<"}">>
json_dumps_items(xs) ==
    IF xs = <<>> THEN <<>>
    ELSE IF Len(xs) = 1 THEN json_dumps(xs[1])
    ELSE json_dumps(xs[1]) \o <<",", " ">> \o json_dumps_items(Tail(xs))
json_dumps_entries(es) ==
    IF es = <<>> THEN <<>>
    ELSE LET one == <<"\"">> \o es[1][1] \o <<"\"", ":", " ">> \o json_dumps(es[1][2])
         IN  IF Len(es) = 1 THEN one
             ELSE one \o <<",", " ">> \o json_dumps_entries(Tail(es))

\* ------------------------------------------------------------- json_to_csv
\* a test that lets the empty array through
json_never_empty(rows) == FALSE

\* line 257: the test that raises ValueError("JSON is empty")
json_is_empty(rows) == rows = <<>>

\* lines 262-267: the copy of a row with pairs replaced by its JSON text
ProcessedForCsv(row) ==
    IF Has(row, n_pairs)
    THEN Put(row, n_pairs, VStr(json_dumps(Get(row, n_pairs))))
    ELSE row

\* the header in a fixed order, whatever the rows hold
FieldnamesFixed(rows) ==
    <<n_type, n_question, n_correct, n_wrong_answers, n_left, n_right, n_answers>>

\* lines 271-276: the header, every key of every row, sorted
Fieldnames(rows) ==
    sorted(UNION {Keys(ProcessedForCsv(rows[n])) : n \in 1..Len(rows)})

\* the cell DictWriter writes for one field of one row (restval "")
CellOf(row, field) == IF Has(row, field) THEN py_str(Get(row, field)) ELSE <<>>

\* the CSV json_to_csv writes for a non-empty array
json_to_csv(rows) ==
    LET fieldnames == Fieldnames(rows)
    IN  [exists |-> TRUE,
         header |-> fieldnames,
         rows |-> [n \in 1..Len(rows) |->
                     [c \in 1..Len(fieldnames) |->
                        CellOf(ProcessedForCsv(rows[n]), fieldnames[c])]]]

\* ------------------------------------------------------------- csv_to_json
\* `value and value.strip()`: a cell that is not blank
NonBlank(cell) == cell # <<>> /\ strip(cell) # <<>>

\* [item.strip() for item in parts if item.strip()] as a list of strings
RECURSIVE StrippedNonEmpty(_)
StrippedNonEmpty(parts) ==
    IF parts = <<>> THEN <<>>
    ELSE IF strip(Head(parts)) # <<>>
         THEN <<VStr(strip(Head(parts)))>> \o StrippedNonEmpty(Tail(parts))
    ELSE StrippedNonEmpty(Tail(parts))

\* the text between top-level commas of a list display; q is the open quote
RECURSIVE SplitTop(_, _, _, _)
SplitTop(s, q, cur, acc) ==
    IF s = <<>> THEN Append(acc, cur)
    ELSE IF q # "" THEN SplitTop(Tail(s), IF Head(s) = q THEN "" ELSE q,
                                 Append(cur, Head(s)), acc)
    ELSE IF Head(s) \in {"'", "\""}
         THEN SplitTop(Tail(s), Head(s), Append(cur, Head(s)), acc)
    ELSE IF Head(s) = "," THEN SplitTop(Tail(s), "", <<>>, Append(acc, cur))
    ELSE SplitTop(Tail(s), "", Append(cur, Head(s)), acc)

IsQuoted(t) ==
    /\ Len(t) >= 2
    /\ Head(t) \in {"'", "\""}
    /\ t[Len(t)] = Head(t)
    /\ \A n \in 2..(Len(t) - 1) : t[n] # Head(t) /\ t[n] # "\\"

IsDigits(t) ==
    t # <<>> /\ \A n \in 1..Len(t) :
                   t[n] \in {"0", "1", "2", "3", "4", "5", "6", "7", "8", "9"}

IsLiteral(part) == IsQuoted(strip(part)) \/ IsDigits(strip(part))

LiteralOf(part) ==
    LET t == strip(part)
    IN  IF IsQuoted(t) THEN VStr(SubSeq(t, 2, Len(t) - 1)) ELSE VInt(t)

\* a Python set, which json.dump cannot write
VSet(items) == [kind |-> "set", v |-> items]

\* ast.literal_eval on a cell that is a list or set display of string and
\* integer literals, the empty dict display, one such literal, or text that
\* is no Python literal (raises)
literal_eval(cell) ==
    LET t == strip(cell)
    IN  IF t # <<>> /\ Head(t) = "{" /\ t[Len(t)] = "}"
        THEN LET inner == strip(SubSeq(t, 2, Len(t) - 1))
                 parts == SplitTop(inner, "", <<>>, <<>>)
             IN  IF inner = <<>> THEN [raises |-> FALSE, val |-> VDict(<<>>)]
                 ELSE IF \A n \in 1..Len(parts) : IsLiteral(parts[n])
                      THEN [raises |-> FALSE,
                            val |-> VSet([n \in 1..Len(parts) |-> LiteralOf(parts[n])])]
                 ELSE [raises |-> TRUE, val |-> VList(<<>>)]
        ELSE
        IF t # <<>> /\ Head(t) = "[" /\ t[Len(t)] = "]"
        THEN LET inner == strip(SubSeq(t, 2, Len(t) - 1))
                 parts == SplitTop(inner, "", <<>>, <<>>)
             IN  IF inner = <<>> THEN [raises |-> FALSE, val |-> VList(<<>>)]
                 ELSE IF \A n \in 1..Len(parts) : IsLiteral(parts[n])
                      THEN [raises |-> FALSE,
                            val |-> VList([n \in 1..Len(parts) |-> LiteralOf(parts[n])])]
                 ELSE [raises |-> TRUE, val |-> VList(<<>>)]
        ELSE IF IsLiteral(t) THEN [raises |-> FALSE, val |-> LiteralOf(t)]
        ELSE [raises |-> TRUE, val |-> VList(<<>>)]

\* lines 154-167: a non-blank wrong_answers cell of the normal dialect
WrongAnswersValue(value) ==
    LET r == literal_eval(value)
    IN  IF ~r.raises
        THEN IF r.val.kind = "list" THEN r.val ELSE VList(<<r.val>>)
        ELSE VList(StrippedNonEmpty(Split(StripQuotes(strip(value)), ",")))

\* lines 180-190: a non-blank answers cell of the normal dialect
RECURSIVE AnswersDict(_, _)
AnswersDict(parts, acc) ==
    IF parts = <<>> THEN acc
    ELSE IF Contains(Head(parts), ":")
         THEN LET kv == SplitOnce(Head(parts), ":")
              IN  AnswersDict(Tail(parts), Put(acc, strip(kv[1]), VStr(strip(kv[2]))))
    ELSE AnswersDict(Tail(parts), acc)

\* a copy that also trims the cell
stripped_cell(value) == VStr(strip(value))

\* line 192: the cell of any other column, copied as it is
copied_cell(value) == VStr(value)

\* lines 138-192: the value the normal dialect stores for one cell
NormalValue(key, value) ==
    IF value = <<>> \/ strip(value) = <<>>
    THEN IF key = n_wrong_answers THEN VList(<<>>)
         ELSE IF key = n_pairs THEN VDict(<<>>)
         ELSE VStr(value)
    ELSE IF key = n_wrong_answers THEN WrongAnswersValue(value)
    ELSE IF key \in {n_left, n_right}
         THEN VList(StrippedNonEmpty(Split(value, "|")))
    ELSE IF key = n_answers THEN VDict(AnswersDict(Split(value, ","), <<>>))
    ELSE copied_cell(value)

\* lines 109-192: the normal dialect over the cells of a row, in header order
RECURSIVE NormalRow(_, _)
NormalRow(row, acc) ==
    IF row = <<>> THEN acc
    ELSE NormalRow(Tail(row),
                   Put(acc, Head(row)[1], NormalValue(Head(row)[1], Head(row)[2])))

\* the non-blank cells, stripped, of the columns under a prefix, in the
\* order of keys
RECURSIVE GatherItems(_, _, _)
GatherItems(row, keys, prefix) ==
    IF keys = <<>> THEN <<>>
    ELSE IF StartsWith(Head(keys), prefix) /\ NonBlank(Get(row, Head(keys)))
         THEN <<VStr(strip(Get(row, Head(keys))))>>
                  \o GatherItems(row, Tail(keys), prefix)
    ELSE GatherItems(row, Tail(keys), prefix)

\* lines 79-88: the answers mapping of the flattened dialect
RECURSIVE GatherAnswers(_, _, _, _)
GatherAnswers(row, keys, prefix, acc) ==
    IF keys = <<>> THEN acc
    ELSE IF StartsWith(Head(keys), prefix) /\ NonBlank(Get(row, Head(keys)))
         THEN LET parts == Split(Head(keys), "/")
                  sub_key == parts[Len(parts)]
              IN  GatherAnswers(row, Tail(keys), prefix,
                                Put(acc, sub_key, VStr(strip(Get(row, Head(keys))))))
    ELSE GatherAnswers(row, Tail(keys), prefix, acc)

\* lines 99-105: type, question and correct copied when present and not blank
RECURSIVE CopyOther(_, _, _)
CopyOther(row, keys, acc) ==
    IF keys = <<>> THEN acc
    ELSE IF Has(row, Head(keys)) /\ NonBlank(Get(row, Head(keys)))
         THEN CopyOther(row, Tail(keys),
                        Put(acc, Head(keys), VStr(strip(Get(row, Head(keys))))))
    ELSE CopyOther(row, Tail(keys), acc)

\* the order in which lines 61, 70 and 79 visit the columns
pairs_key_order(header) == sorted({header[n] : n \in 1..Len(header)})

\* lines 41-105: the flattened dialect over a row
FlattenedRow(row, header) ==
    LET wrong_answers == GatherItems(row, header, n_wrong_answers \o <<"/">>)
        left_items == GatherItems(row, pairs_key_order(header),
                                  n_pairs \o <<"/">> \o n_left \o <<"/">>)
        right_items == GatherItems(row, pairs_key_order(header),
                                   n_pairs \o <<"/">> \o n_right \o <<"/">>)
        answers == GatherAnswers(row, pairs_key_order(header),
                                 n_pairs \o <<"/">> \o n_answers \o <<"/">>, <<>>)
        pairs == IF left_items # <<>> \/ right_items # <<>> \/ answers # <<>>
                 THEN VDict(<< <<n_left, VList(left_items)>>,
                               <<n_right, VList(right_items)>>,
                               <<n_answers, VDict(answers)>> >>)
                 ELSE VDict(<<>>)
    IN  CopyOther(row, <<n_type, n_question, n_correct>>,
                  << <<n_wrong_answers, VList(wrong_answers)>>, <<n_pairs, pairs>> >>)

\* d.get(k, default) on a value that is an object
GetOr(d, k, default) == IF Has(d, k) THEN Get(d, k) ELSE default

\* lines 194-227: pairs rebuilt for a match row, emptied for any other row
PostProcess(processed_row) ==
    LET popped == Pop(Pop(Pop(processed_row, n_left), n_right), n_answers)
    IN  IF Has(processed_row, n_type) /\ Get(processed_row, n_type) = VStr(t_match)
        THEN LET existing_pairs == GetOr(processed_row, n_pairs, VStr(<<>>))
                 usable == /\ Has(processed_row, n_pairs)
                           /\ existing_pairs.kind = "dict"
                           /\ \E k \in {n_left, n_right, n_answers} :
                                 /\ Has(existing_pairs.v, k)
                                 /\ Truthy(Get(existing_pairs.v, k))
                 src == IF usable THEN existing_pairs.v ELSE processed_row
             IN  Put(popped, n_pairs,
                     VDict(<< <<n_left, GetOr(src, n_left, VList(<<>>))>>,
                              <<n_right, GetOr(src, n_right, VList(<<>>))>>,
                              <<n_answers, GetOr(src, n_answers, VDict(<<>>))>> >>))
        ELSE Put(popped, n_pairs, VDict(<<>>))

\* line 35: the dialect test on the header
is_flattened(header) == \E n \in 1..Len(header) : Contains(header[n], "/")

\* csv.DictReader: a row as <<column, cell>> entries in header order
RowDict(header, cells) == [n \in 1..Len(header) |-> <<header[n], cells[n]>>]

\* lines 37-229: the array csv_to_json builds for a CSV
csv_to_json(csv) ==
    [n \in 1..Len(csv.rows) |->
        LET row == RowDict(csv.header, csv.rows[n])
        IN  PostProcess(IF is_flattened(csv.header)
                        THEN FlattenedRow(row, csv.header)
                        ELSE NormalRow(row, <<>>))]

\* json.dump can encode the value: anything but a set, at any depth
RECURSIVE serializable(_)
serializable(x) ==
    IF x.kind = "set" THEN FALSE
    ELSE IF x.kind = "list" THEN \A n \in 1..Len(x.v) : serializable(x.v[n])
    ELSE IF x.kind = "dict" THEN \A n \in 1..Len(x.v) : serializable(x.v[n][2])
    ELSE TRUE

\* a record json.dump writes completely
row_serializable(row) == \A n \in 1..Len(row) : serializable(row[n][2])

\* lines 231-232: the records json.dump has written completely when it
\* returns or raises TypeError; the file is opened for writing first, and
\* what follows the last complete record is then no JSON document
RECURSIVE json_dump(_)
json_dump(data) ==
    IF data = <<>> \/ ~row_serializable(Head(data)) THEN <<>>
    ELSE <<Head(data)>> \o json_dump(Tail(data))

\* lines 231-232: json.dump raises on the data
dump_raises(data) == \E n \in 1..Len(data) : ~row_serializable(data[n])

\* ----------------------------------------------------------- score file
\* The score file on disk: absent, a valid JSON array (data), content
\* json.load rejects (a write that failed after open() truncated the file),
\* or a JSON object.
NoFile == [state |-> "absent", data |-> <<>>]

\* load_json: the array, or [] for a missing or unreadable file
load_json(file) == IF file.state = "valid" THEN file.data ELSE <<>>

\* lines 38-40 of load_json_result: a JSON object is returned as it is
loads_dict(file) == file.state = "object"

\* ways save_json can go: no fault, OSError before the file is opened for
\* writing (makedirs/open), OSError while json.dump writes
SaveFaults == {"none", "open", "write"}

\* the file save_json leaves behind
save_json(file, data, fault) ==
    CASE fault = "none" -> [state |-> "valid", data |-> data]
      [] fault = "open" -> file
      [] fault = "write" -> [state |-> "corrupt", data |-> <<>>]

\* the value save_json returns
save_json_ok(fault) == fault = "none"

\* the dict _save_quiz_result appends; duration_s and timestamp, the two
\* wall-clock readings, are left out
ScoreRecord(c, w, t, total) ==
    [correct |-> c, wrong |-> w, unanswered |-> t, total |-> total]

\* the score file before the first call: absent, the list an earlier run
\* of the program left there, or a file holding {}
InitialScoreFiles ==
    {NoFile, [state |-> "valid", data |-> <<ScoreRecord(1, 0, 0, 1)>>],
     [state |-> "object", data |-> <<>>]}

\* a save that writes the new record alone
AppendScoreOverwrite(scores, rec) == <<rec>>

\* scores.append(record) in _save_quiz_result
AppendScore(scores, rec) == Append(scores, rec)

\* ------------------------------------------------------------- the prompt
\* What the user does at a timed prompt: type a line, or close the input.
InputLines ==
    {<<"a">>, <<"x">>, <<" ", "X">>, <<"1">>, <<"2">>, <<"P">>}

InputEvents ==
    {[kind |-> "line", text |-> l] : l \in InputLines}
        \cup {[kind |-> "eof", text |-> <<>>]}

None == [none |-> TRUE, value |-> <<>>]
Some(v) == [none |-> FALSE, value |-> v]

\* input_with_timeout when the event arrives before the deadline: the
\* worker thread strips the line and maps EOF to None; the select branch
\* removes the trailing newline only and reads "" at EOF
input_with_timeout(system, ev) ==
    IF system = "Windows"
    THEN IF ev.kind = "eof" THEN None ELSE Some(strip(ev.text))
    ELSE IF ev.kind = "eof" THEN Some(<<>>) ELSE Some(ev.text)

\* ------------------------------------------------------------ quiz_session
VARIABLES
    platform_system,   \* platform.system()
    questions,         \* the caller's list handed to quiz_session
    score_file,        \* the score file on disk
    sessions,          \* quiz_session calls so far
    pc,                \* "idle", "input" (in input_with_timeout), "confirm"
    outcome,           \* how the latest quiz_session call stands or ended
    error,             \* exception that left quiz_session, or "none"
    shuffled,          \* quiz_session's local list after random.shuffle
    qi,                \* position of the for loop in shuffled (1-based)
    correct_count, wrong_count, timeout_count,
    options,           \* _handle_choice_question: the shuffled options
    i,                 \* _handle_match_question: loop index
    user_mapping,      \* _handle_match_question: <<letter, line>> collected
    elapsed,           \* seconds since start_time_q
    remaining,         \* deadline handed to input_with_timeout
    handled,           \* per handler return of this call: question, result,
                       \* message, len(user_mapping), and whether
                       \* user_mapping has the value of every key of answers
    shown_stats,       \* <<>> or <<the statistics _show_quiz_statistics printed>>
    file_ops,          \* load_json/save_json calls of the latest operation
    save_ok,           \* what the latest save_json call returned
    skipped,           \* quiz_session's count of invalid questions
    save_report        \* what _save_quiz_result printed after save_json

engineVars ==
    <<platform_system, questions, score_file, sessions, pc, outcome, error,
      shuffled, qi, correct_count, wrong_count, timeout_count,
      options, i, user_mapping, elapsed, remaining, handled, shown_stats,
      file_ops, save_ok, skipped, save_report>>

VARIABLES
    json_file,         \* the JSON file json_to_csv reads: exists, rows
    csv_file,          \* the CSV file: exists, header, rows of cells
    json_out,          \* the JSON file csv_to_json writes: exists, rows
    conv_last,         \* the latest converter call, or "none"
    conv_error,        \* what the latest converter call raised, or "none"
    exported,          \* csv_file was written by json_to_csv from json_file
    dialect            \* the dialect the latest csv_to_json call used

convVars ==
    <<json_file, csv_file, json_out, conv_last, conv_error, exported, dialect>>

VARIABLES
    scores,            \* the list handed to show_scores_paginated
    page_size,         \* its page_size argument
    normalized,        \* show_scores_paginated: the normalized entries
    page,              \* show_scores_paginated: the page on display
    table,             \* the rows of the table printed last
    view_pc            \* "idle", "navigation" (in questionary.select), "done"

viewVars == <<scores, page_size, normalized, page, table, view_pc>>

VARIABLES
    fc_pc,             \* flashcards_mode: "idle", "prompt1", "confirm1",
                       \* "prompt2", "confirm2", "done"
    fc_cards,          \* flashcards_mode's list after line 329
    fc_k,              \* position of its for loop
    fc_shown,          \* positions whose question panel was printed
    fc_revealed,       \* positions whose answer was printed
    fc_last,           \* the latest input: a line or a confirmation
    fc_outcome,        \* how the call ended
    fc_skipped         \* flashcards_mode's count of invalid questions

flashVars ==
    <<fc_pc, fc_cards, fc_k, fc_shown, fc_revealed, fc_last, fc_outcome,
      fc_skipped>>

VARIABLES
    q_file,            \* the question file: exists, mtime, data
    clock,             \* the latest mtime the file system handed out
    core_cache,        \* questions_cache of core/questions.py, this path
    app_cache,         \* questions_cache of app.py, this path
    app_counter,       \* cache_cleanup_counter of app.py
    gq_last            \* the latest get_questions call and what it did

cacheVars == <<q_file, clock, core_cache, app_cache, app_counter, gq_last>>

VARIABLES
    app_pc,            \* app.py's quiz_session: "idle", "question", "done"
    app_outcome        \* how it got there

appVars == <<app_pc, app_outcome>>

\* the variables of the engine other than the list its caller holds
engineLocals ==
    <<platform_system, score_file, sessions, pc, outcome, error,
      shuffled, qi, correct_count, wrong_count, timeout_count,
      options, i, user_mapping, elapsed, remaining, handled, shown_stats,
      file_ops, save_ok, skipped, save_report>>

VARIABLES
    hd_system,         \* one handler call: platform.system()
    hd_q,              \* its question
    hd_options,        \* _handle_choice_question: the shuffled options
    hd_pc,             \* "input", "confirm" or "returned"
    hd_elapsed,        \* seconds since start_time_q
    hd_remaining,      \* deadline handed to input_with_timeout
    hd_event,          \* what the user did last
    hd_got,            \* what input_with_timeout returned last
    hd_result          \* the handler's return value, or "none"

hdVars ==
    <<hd_system, hd_q, hd_options, hd_pc, hd_elapsed, hd_remaining,
      hd_event, hd_got, hd_result>>

VARIABLES
    th_calls,          \* worker-thread strategy: calls of input_with_timeout so far
    th_current,        \* the call the main thread is joined on, 0 outside a call
    th_alive,          \* calls whose worker is still blocked in input()
    th_value,          \* result["value"] of each call
    th_returned,       \* what each call returned: done, got
    th_lines           \* the lines typed: text, the call current then, the reader

thVars == <<th_calls, th_current, th_alive, th_value, th_returned, th_lines>>

VARIABLES
    sv_file,           \* utils.files.save_json: the target file: state, mtime, data
    sv_cache,          \* files.questions_cache entry of its path
    sv_clock,          \* the file system's clock
    sv_last            \* the latest call: its data, return value, file and cache before

svVars == <<sv_file, sv_cache, sv_clock, sv_last>>

\* the variables outside the menu functions above
restVars == <<hdVars, thVars, svVars>>

notEngine == <<convVars, viewVars, flashVars, cacheVars, appVars, restVars>>
notConv == <<engineVars, viewVars, flashVars, cacheVars, appVars, restVars>>
notView == <<engineVars, convVars, flashVars, cacheVars, appVars, restVars>>
notFlash == <<engineVars, convVars, viewVars, cacheVars, appVars, restVars>>
notCache == <<engineVars, convVars, viewVars, flashVars, appVars, restVars>>
notApp == <<engineLocals, convVars, viewVars, flashVars, cacheVars, restVars>>
menuVars == <<engineVars, convVars, viewVars, flashVars, cacheVars, appVars>>
notHd == <<menuVars, thVars, svVars>>
notTh == <<menuVars, hdVars, svVars>>
notSv == <<menuVars, hdVars, thVars>>

\* the main menu runs one of its functions at a time
AtMenu ==
    /\ pc = "idle"
    /\ fc_pc \in {"idle", "done"}
    /\ app_pc \in {"idle", "done"}

KnownTypes == {"multiple", "truefalse", "fillin", "match"}

\* a loop that treats quit like any other result
quit_ignored(res) == FALSE

\* line 301: a quit result makes quiz_session return
quit_returns(res) == res = "quit"

\* counters that book a timeout as a wrong answer
CountTimeoutAsWrong(res, c, w, t) ==
    [c |-> IF res = "correct" THEN c + 1 ELSE c,
     w |-> IF res \in {"wrong", "timeout"} THEN w + 1 ELSE w,
     t |-> t]

\* lines 303-308: the counters after a result
Count(res, c, w, t) ==
    [c |-> IF res = "correct" THEN c + 1 ELSE c,
     w |-> IF res = "wrong" THEN w + 1 ELSE w,
     t |-> IF res = "timeout" THEN t + 1 ELSE t]

\* user_mapping[k] == str(v) for every k, v of pairs.answers
Agrees(q, um) ==
    \A n \in 1..Len(q.pairs.answers) :
        \E m \in 1..Len(um) : um[m] = q.pairs.answers[n]

\* _handle_match_question line 175: the guard that returns "wrong" unasked
MatchUndefined(q) ==
    q.pairs.left = <<>> \/ q.pairs.right = <<>> \/ q.pairs.answers = <<>>

\* The for loop from position k up to the next question that prompts or
\* raises: a type without handler is passed over by `continue`, an
\* undefined matching question returns "wrong" without a prompt.
RECURSIVE Advance(_, _, _, _)
Advance(qs, k, w, h) ==
    IF k > Len(qs) THEN [k |-> k, w |-> w, h |-> h]
    ELSE IF qs[k].type \notin KnownTypes THEN Advance(qs, k + 1, w, h)
    ELSE IF qs[k].type = "match" /\ qs[k].pairs.isdict /\ MatchUndefined(qs[k])
         THEN Advance(qs, k + 1, w + 1,
                      Append(h, [k |-> k, result |-> "wrong",
                                 msg |-> "not_properly_defined",
                                 answered |-> 0,
                                 agrees |-> Agrees(qs[k], <<>>)]))
    ELSE [k |-> k, w |-> w, h |-> h]

\* quiz_session is blocked in a prompt of question k
Waiting(newpc, k, opts, ii, um, e, r, c, w, t, h) ==
    /\ pc' = newpc
    /\ qi' = k
    /\ options' = opts
    /\ i' = ii
    /\ user_mapping' = um
    /\ elapsed' = e
    /\ remaining' = r
    /\ correct_count' = c
    /\ wrong_count' = w
    /\ timeout_count' = t
    /\ handled' = h
    /\ outcome' = "running"
    /\ error' = "none"
    /\ shown_stats' = <<>>
    /\ file_ops' = <<>>
    /\ save_report' = <<>>
    /\ UNCHANGED <<score_file, save_ok>>

\* quiz_session has returned or raised
Ended(how, err, k, c, w, t, h, st, file, ops, ok) ==
    /\ pc' = "idle"
    /\ qi' = k
    /\ options' = <<>>
    /\ i' = 0
    /\ user_mapping' = <<>>
    /\ elapsed' = 0
    /\ remaining' = 0
    /\ correct_count' = c
    /\ wrong_count' = w
    /\ timeout_count' = t
    /\ handled' = h
    /\ outcome' = how
    /\ error' = err
    /\ shown_stats' = st
    /\ score_file' = file
    /\ file_ops' = ops
    /\ save_ok' = ok

EndedUnsaved(how, err, k, c, w, t, h) ==
    /\ Ended(how, err, k, c, w, t, h, <<>>, score_file, <<>>, save_ok)
    /\ save_report' = <<>>

\* lines 266-267: the message after a save_json that returned False
report(ok) == IF ok THEN <<>> ELSE <<"failed_to_save">>

\* lines 310-312 with _save_quiz_result: statistics, then load, append,
\* save; scores.append raises when load_json returned a dict
Finish(qs, k, c, w, t, h) ==
    LET rec == ScoreRecord(c, w, t, Len(qs))
    IN  IF loads_dict(score_file)
        THEN /\ Ended("save_error", "AttributeError", k, c, w, t, h, <<rec>>,
                      score_file, <<"load">>, save_ok)
             /\ save_report' = <<>>
        ELSE \E fault \in SaveFaults :
                /\ Ended("completed", "none", k, c, w, t, h, <<rec>>,
                         save_json(score_file,
                                   AppendScore(load_json(score_file), rec), fault),
                         <<"load", "save">>, save_json_ok(fault))
                /\ save_report' = report(save_json_ok(fault))

\* the for loop arrives at position k0
Enter(qs, k0, c, w0, t, h0) ==
    LET a == Advance(qs, k0, w0, h0)
        k == a.k
        w == a.w
        h == a.h
    IN  IF k > Len(qs) THEN Finish(qs, k, c, w, t, h)
        ELSE LET q == qs[k]
             IN  CASE q.type \in {"multiple", "truefalse"} ->
                        IF "wrong_answers" \notin q.keys
                        THEN EndedUnsaved("error", "KeyError", k, c, w, t, h)
                        ELSE \E opts \in Shuffles(<<q.correct>> \o q.wrong_answers) :
                                Waiting("input", k, opts, 0, <<>>, 0, remaining_time,
                                        c, w, t, h)
                   [] q.type = "fillin" ->
                        Waiting("input", k, <<>>, 0, <<>>, 0, remaining_time,
                                c, w, t, h)
                   [] q.type = "match" ->
                        IF ~q.pairs.isdict
                        THEN EndedUnsaved("error", "AttributeError", k, c, w, t, h)
                        ELSE Waiting("input", k, <<>>, 0, <<>>, 0, remaining_time,
                                     c, w, t, h)

\* a handler returns res after printing msg, having collected the mapping um
ReturnWith(res, msg, um) ==
    LET h == Append(handled, [k |-> qi, result |-> res, msg |-> msg,
                              answered |-> Len(um),
                              agrees |-> Agrees(shuffled[qi], um)])
        n == Count(res, correct_count, wrong_count, timeout_count)
    IN  IF quit_returns(res)
        THEN EndedUnsaved("quit", "none", qi, correct_count, wrong_count,
                          timeout_count, h)
        ELSE Enter(shuffled, qi + 1, n.c, n.w, n.t, h)

Return(res, msg) == ReturnWith(res, msg, user_mapping)

\* message of a choice or fill-in handler when the time is up
TimeUpChoice == "time_up_correct_answer"

\* a loop that hands every prompt the whole budget again
LoopTopReset(e) ==
    IF remaining_time - e <= 0
    THEN Return("timeout", TimeUpChoice)
    ELSE Waiting("input", qi, options, i, user_mapping, e, remaining_time,
                 correct_count, wrong_count, timeout_count, handled)

\* top of the while loop of the choice and fill-in handlers, e seconds in
LoopTop(e) ==
    IF remaining_time - e <= 0
    THEN Return("timeout", TimeUpChoice)
    ELSE Waiting("input", qi, options, i, user_mapping, e, remaining_time - e,
                 correct_count, wrong_count, timeout_count, handled)

get(um, k) ==
    IF \E n \in 1..Len(um) : um[n][1] = k
    THEN Some(um[CHOOSE n \in 1..Len(um) : um[n][1] = k][2])
    ELSE None

\* lines 217-227: the verdict once the for loop of the match handler is done
MatchVerdict(q, um) ==
    IF Len(um) # Len(q.pairs.answers) THEN <<"timeout", "none">>
    ELSE IF \E n \in 1..Len(q.pairs.answers) :
                get(um, q.pairs.answers[n][1]) # Some(q.pairs.answers[n][2])
         THEN <<"wrong", "incorrect_mapping">>
    ELSE <<"correct", "matched_all">>

\* top of the for loop of the match handler at index ii, e seconds in
ForTop(ii, um, e) ==
    LET q == shuffled[qi]
    IN  IF ii >= Len(q.pairs.left)
        THEN ReturnWith(MatchVerdict(q, um)[1], MatchVerdict(q, um)[2], um)
        ELSE IF remaining_time - e <= 0
             THEN ReturnWith("timeout", "time_up_not_completed", um)
        ELSE Waiting("input", qi, options, ii, um, e, remaining_time - e,
                     correct_count, wrong_count, timeout_count, handled)


TimeUpFor(q) ==
    IF q.type = "match" THEN "time_up_not_answered" ELSE TimeUpChoice

\* a comparison that takes the option as it is written
same_option_exact(selected, correct) == selected = correct

\* line 123: the selected option against q["correct"]
same_option(selected, correct) == strip(lower(selected)) = strip(lower(correct))

\* lines 113-129: what _handle_choice_question does with an input line,
\* the options being opts: "confirm", "correct", "wrong" or "invalid"
choice_step(q, opts, line) ==
    LET answer == lower(strip(line))
        option_labels == ascii_lowercase(Len(opts))
    IN  IF answer = <<"x">> THEN "confirm"
        ELSE IF InSeq(option_labels, answer)
             THEN LET selected == opts[IndexOf(option_labels, answer)]
                  IN  IF same_option(selected, q.correct)
                      THEN "correct" ELSE "wrong"
        ELSE "invalid"

\* a comparison that minds the case
same_text_exact(answer, correct) == answer = correct

\* line 161: the answer against q["correct"]
same_text(answer, correct) == lower(answer) = lower(correct)

\* lines 153-165: what _handle_fillin_question does with an input line
fillin_step(q, line) ==
    LET answer == strip(line)
    IN  IF lower(answer) = <<"x">> THEN "confirm"
        ELSE IF same_text(answer, q.correct) THEN "correct"
        ELSE "wrong"

\* lines 113-129: _handle_choice_question with an input line
ChoiceLine(q, line, e) ==
    CASE choice_step(q, options, line) = "confirm" ->
            Waiting("confirm", qi, options, i, user_mapping, e, remaining,
                    correct_count, wrong_count, timeout_count, handled)
      [] choice_step(q, options, line) = "correct" ->
            Return("correct", "correct")
      [] choice_step(q, options, line) = "wrong" ->
            Return("wrong", "wrong_correct_answer")
      [] choice_step(q, options, line) = "invalid" -> LoopTop(e)

\* lines 153-165: _handle_fillin_question with an input line
FillinLine(q, line, e) ==
    CASE fillin_step(q, line) = "confirm" ->
            Waiting("confirm", qi, options, i, user_mapping, e, remaining,
                    correct_count, wrong_count, timeout_count, handled)
      [] fillin_step(q, line) = "correct" -> Return("correct", "correct")
      [] fillin_step(q, line) = "wrong" ->
            Return("wrong", "wrong_correct_answer")

\* lines 209-215: _handle_match_question with an input line
MatchLine(q, input_val, e) ==
    IF lower(input_val) = <<"x">>
    THEN Waiting("confirm", qi, options, i, user_mapping, e, remaining,
                 correct_count, wrong_count, timeout_count, handled)
    ELSE ForTop(i + 1, Append(user_mapping, <<chr97(i), input_val>>), e)

\* ---------------------------------------------------------------- actions
\* a comprehension that keeps every record
kept_all(q) == TRUE

\* line 275: the condition of the comprehension that builds valid_questions
kept(q) == _is_valid_question(q) = "True"

\* quiz_session(questions, score_file) up to its first prompt or its return
StartSession ==
    /\ UNCHANGED notEngine
    /\ AtMenu
    /\ sessions < MaxSessions
    /\ sessions' = sessions + 1
    /\ UNCHANGED <<platform_system, questions>>
    /\ IF questions = <<>>
       THEN /\ shuffled' = <<>>
            /\ skipped' = 0
            /\ EndedUnsaved("no_questions", "none", 0, 0, 0, 0, <<>>)
       ELSE IF \E n \in 1..Len(questions) :
                    _is_valid_question(questions[n]) \notin {"True", "False"}
            THEN /\ shuffled' = <<>>
                 /\ skipped' = 0
                 /\ EndedUnsaved("error", "AttributeError", 0, 0, 0, 0, <<>>)
       ELSE LET valid_questions == SelectSeq(questions, kept)
            IN  /\ skipped' = Len(questions) - Len(valid_questions)
                /\ IF valid_questions = <<>>
                   THEN /\ shuffled' = <<>>
                        /\ EndedUnsaved("no_valid", "none", 0, 0, 0, 0, <<>>)
                   ELSE \E qs \in Shuffles(valid_questions) :
                           /\ shuffled' = qs
                           /\ Enter(qs, 1, 0, 0, 0, <<>>)

\* the user types a line (or closes the input) d seconds into the prompt
Answer(ev, d) ==
    /\ UNCHANGED notEngine
    /\ pc = "input"
    /\ d < remaining
    /\ UNCHANGED <<platform_system, questions, sessions, shuffled, skipped>>
    /\ LET q == shuffled[qi]
           r == input_with_timeout(platform_system, ev)
           e == elapsed + d
       IN  IF r.none
           THEN Return("timeout", TimeUpFor(q))
           ELSE CASE q.type \in {"multiple", "truefalse"} -> ChoiceLine(q, r.value, e)
                  [] q.type = "fillin" -> FillinLine(q, r.value, e)
                  [] q.type = "match" -> MatchLine(q, r.value, e)

\* no line arrives before the deadline: input_with_timeout returns None
Timeout ==
    /\ UNCHANGED notEngine
    /\ pc = "input"
    /\ UNCHANGED <<platform_system, questions, sessions, shuffled, skipped>>
    /\ Return("timeout", TimeUpFor(shuffled[qi]))

\* the user answers the quit confirmation after d seconds
Confirm(ans, d) ==
    /\ UNCHANGED notEngine
    /\ pc = "confirm"
    /\ UNCHANGED <<platform_system, questions, sessions, shuffled, skipped>>
    /\ LET q == shuffled[qi]
           e == elapsed + d
       IN  IF ans
           THEN Return("quit", "stopped")
           ELSE IF q.type = "match"
                THEN ForTop(i + 1, user_mapping, e)
                ELSE LoopTop(e)

\* reset_scores(score_file) with the user's answer to its confirmation;
\* the locals of an earlier quiz_session call are gone by then
ResetScores(confirm, fault) ==
    /\ UNCHANGED notEngine
    /\ pc = "idle"
    /\ UNCHANGED <<platform_system, questions, sessions, pc>>
    /\ shuffled' = <<>>
    /\ qi' = 0
    /\ correct_count' = 0
    /\ wrong_count' = 0
    /\ timeout_count' = 0
    /\ options' = <<>>
    /\ i' = 0
    /\ user_mapping' = <<>>
    /\ elapsed' = 0
    /\ remaining' = 0
    /\ handled' = <<>>
    /\ shown_stats' = <<>>
    /\ error' = "none"
    /\ skipped' = 0
    /\ save_report' = <<>>
    /\ IF confirm
       THEN /\ score_file' = save_json(score_file, <<>>, fault)
            /\ file_ops' = <<"save">>
            /\ save_ok' = save_json_ok(fault)
            /\ outcome' = "reset"
       ELSE /\ UNCHANGED <<score_file, save_ok>>
            /\ file_ops' = <<>>
            /\ outcome' = "reset_canceled"

\* ------------------------------------------------------ converter inputs
MaxRows == 2               \* longest JSON array handed to json_to_csv

NoJson == [exists |-> FALSE, rows |-> <<>>]
NoCsv == [exists |-> FALSE, header |-> <<>>, rows |-> <<>>]

J_multiple ==
    << <<n_type, VStr(t_multiple)>>, <<n_question, VStr(<<" ", "Q">>)>>,
       <<n_correct, VStr(<<"P">>)>>,
       <<n_wrong_answers, Strs(<< <<"L">>, <<"1">> >>)>> >>

J_truefalse ==
    << <<n_type, VStr(t_truefalse)>>, <<n_question, VStr(<<"Q">>)>>,
       <<n_correct, VStr(<<"T", "r", "u", "e">>)>>,
       <<n_wrong_answers, Strs(<< <<"F", "a", "l", "s", "e">> >>)>> >>

J_fillin ==
    << <<n_type, VStr(t_fillin)>>, <<n_question, VStr(<<"Q">>)>>,
       <<n_correct, VStr(<<"p">>)>>, <<n_wrong_answers, VList(<<>>)>> >>

J_match ==
    << <<n_type, VStr(t_match)>>, <<n_question, VStr(<<"Q">>)>>,
       <<n_pairs, VDict(<< <<n_left, Strs(<< <<"A">>, <<"B">> >>)>>,
                           <<n_right, Strs(<< <<"1">>, <<"2">> >>)>>,
                           <<n_answers, VDict(<< <<<<"a">>, VStr(<<"1">>)>>,
                                                 <<<<"b">>, VStr(<<"2">>)>> >>)>> >>)>> >>

JsonPool == {J_multiple, J_truefalse, J_fillin, J_match}

JsonInputs == UNION { [1..n -> JsonPool] : n \in 0..MaxRows }

\* a flattened column name, e.g. pairs/left/0
Col(path) == Join(path, <<"/">>)

\* Flattened CSVs of one match row: left columns named by idx with cells
\* lc, right columns 0 and 1 with cells rc, answers columns a and b with
\* cells ac.
FlatCsv(idx, lc, rc, ac) ==
    [exists |-> TRUE,
     header |-> <<n_type, n_question,
                  Col(<<n_pairs, n_left, idx[1]>>), Col(<<n_pairs, n_left, idx[2]>>),
                  Col(<<n_pairs, n_right, <<"0">> >>), Col(<<n_pairs, n_right, <<"1">> >>),
                  Col(<<n_pairs, n_answers, <<"a">> >>), Col(<<n_pairs, n_answers, <<"b">> >>)>>,
     rows |-> << <<t_match, <<"Q">>, lc[1], lc[2], rc[1], rc[2], ac[1], ac[2]>> >>]

FlatCsvs ==
    { FlatCsv(idx, lc, rc, ac) :
        idx \in { << <<"0">>, <<"1">> >>, << <<"2">>, <<"1", "0">> >> },
        lc \in [1..2 -> {<<"A">>, <<" ", "B">>, <<>>}],
        rc \in { << <<"1">>, <<"2">> >>, << <<>>, <<>> >> },
        ac \in [1..2 -> {<<"1">>, <<>>}] }

\* CSVs with a header and no data row, one per dialect
HeaderOnlyCsvs ==
    { [exists |-> TRUE, header |-> h, rows |-> <<>>] :
        h \in { <<n_type, n_question, n_correct, n_wrong_answers>>,
                <<n_type, n_question, Col(<<n_pairs, n_left, <<"0">> >>)>> } }

\* Normal-dialect CSVs of one row: with left, right and answers columns,
\* with type, question and correct only, and with a wrong_answers column.
NormalCsvs ==
    { [exists |-> TRUE,
       header |-> <<n_type, n_question, n_correct, n_left, n_right, n_answers>>,
       rows |-> << <<ty, <<"Q">>, <<"P">>, <<"A", "|", "B">>, <<"1", "|", "2">>,
                     <<"a", ":", "1">> >> >>] : ty \in {t_multiple, t_match} }
    \cup
    { [exists |-> TRUE, header |-> <<n_type, n_question, n_correct>>,
       rows |-> << <<ty, <<"Q">>, <<"P">> >> >>] : ty \in {t_fillin, t_match} }
    \cup
    { [exists |-> TRUE,
       header |-> <<n_type, n_question, n_correct, n_wrong_answers>>,
       rows |-> << <<ty, <<"Q">>, <<"P">>, w>> >>] :
        ty \in {t_multiple, t_match}, w \in {<<>>, <<"L">>} }

\* Flattened CSVs of one row of any type with a correct column, one
\* wrong_answers column and one pairs/left column.
FlatOtherCsvs ==
    { [exists |-> TRUE,
       header |-> <<n_type, n_question, n_correct,
                    Col(<<n_wrong_answers, <<"0">> >>),
                    Col(<<n_pairs, n_left, <<"0">> >>)>>,
       rows |-> << <<ty, <<"Q">>, <<"P">>, w, l>> >>] :
        ty \in {t_multiple, t_match}, w \in {<<>>, <<"L">>}, l \in {<<>>, <<"A">>} }

\* Normal-dialect CSVs of two rows whose first wrong_answers cell is a
\* display of a Python set, of an empty dict or of a list
DisplayCsvs ==
    { [exists |-> TRUE,
       header |-> <<n_type, n_question, n_correct, n_wrong_answers>>,
       rows |-> << <<t_multiple, <<"Q">>, <<"P">>, w>>,
                   <<t_fillin, <<"Q">>, <<"p">>, <<>> >> >>] :
        w \in { <<"{", "1", ",", " ", "2", "}">>, <<"{", "}">>,
                <<"[", "1", ",", " ", "2", "]">>, <<"{", "L">> } }

CsvInputs ==
    FlatCsvs \cup HeaderOnlyCsvs \cup NormalCsvs \cup FlatOtherCsvs \cup DisplayCsvs

\* --------------------------------------------------------- converter calls
\* json_to_csv(json_file, csv_file)
JsonToCsv ==
    /\ UNCHANGED notConv
    /\ conv_last' = "json_to_csv"
    /\ UNCHANGED <<json_file, json_out, dialect>>
    /\ IF ~json_file.exists
       THEN /\ conv_error' = "FileNotFoundError"
            /\ UNCHANGED <<csv_file, exported>>
       ELSE IF json_is_empty(json_file.rows)
            THEN /\ conv_error' = "JSON is empty"
                 /\ UNCHANGED <<csv_file, exported>>
       ELSE /\ conv_error' = "none"
            /\ csv_file' = json_to_csv(json_file.rows)
            /\ exported' = TRUE

\* csv_to_json(csv_file, json_out)
CsvToJson ==
    /\ UNCHANGED notConv
    /\ conv_last' = "csv_to_json"
    /\ UNCHANGED <<json_file, csv_file, exported>>
    /\ IF ~csv_file.exists
       THEN /\ conv_error' = "FileNotFoundError"
            /\ UNCHANGED <<json_out, dialect>>
       ELSE LET data == csv_to_json(csv_file)
            IN  /\ conv_error' = IF dump_raises(data) THEN "TypeError" ELSE "none"
                /\ dialect' = IF is_flattened(csv_file.header)
                              THEN "flattened" ELSE "normal"
                /\ json_out' = [exists |-> TRUE, rows |-> json_dump(data)]

\* ----------------------------------------------------------- score viewer
\* A stored score record is a JSON object: <<key, value>> entries whose
\* values are numbers, null or text.  The legacy keys with a caron are
\* written with an apostrophe after the letter that carries it.
MaxWrites == 3             \* modifications of the question file per behaviour
MaxScores == 2             \* longest list handed to show_scores_paginated

Num(n) == [kind |-> "num", v |-> n]
Null == [kind |-> "null", v |-> <<>>]

chain_correct == <<"correct", "tac'nih", "tacnih", "correct_count">>
chain_wrong == <<"wrong", "pogres'nih", "pogresnih", "wrong_count">>
chain_unanswered == <<"unanswered", "neodgovorenih", "unanswered_count">>
chain_total == <<"total", "ukupno", "total_questions">>
chain_duration_s == <<"duration_s", "trajanje_s">>
chain_timestamp == <<"timestamp", "vrijeme">>

\* a lookup that tries the keys of the chain from the last to the first
RECURSIVE get_chain_reversed(_, _, _)
get_chain_reversed(s, chain, default) ==
    IF chain = <<>> THEN default
    ELSE IF Has(s, chain[Len(chain)]) THEN Get(s, chain[Len(chain)])
    ELSE get_chain_reversed(s, SubSeq(chain, 1, Len(chain) - 1), default)

\* s.get(k1, s.get(k2, ... default)): the value of the first key present
RECURSIVE get_chain(_, _, _)
get_chain(s, chain, default) ==
    IF chain = <<>> THEN default
    ELSE IF Has(s, Head(chain)) THEN Get(s, Head(chain))
    ELSE get_chain(s, Tail(chain), default)

\* (x or 0) for a number or None
or0(x) == IF x.kind = "num" THEN x.v ELSE 0

\* lines 11-32 of show_scores_paginated: one normalized entry
normalize(s) ==
    LET correct == get_chain(s, chain_correct, Num(0))
        wrong == get_chain(s, chain_wrong, Num(0))
        unanswered == get_chain(s, chain_unanswered, Num(0))
    IN  [correct |-> correct,
         wrong |-> wrong,
         unanswered |-> unanswered,
         total |-> get_chain(s, chain_total,
                             Num(or0(correct) + or0(wrong) + or0(unanswered))),
         duration_s |-> get_chain(s, chain_duration_s, Num(0)),
         timestamp |-> get_chain(s, chain_timestamp, VStr(<<"-">>))]

\* lines 51-57: the duration cell, "<m> min <s> s" from 60 seconds on
dur_str(dur) ==
    IF dur.kind = "num" /\ dur.v >= 60
    THEN [minutes |-> Num(dur.v \div 60), seconds |-> Num(dur.v % 60)]
    ELSE [minutes |-> Null, seconds |-> dur]

total_pages(total, ps) == (total + ps - 1) \div ps

\* lines 38-67: the table of one page
Table(entries, pg, ps) ==
    LET start == pg * ps
        end == IF start + ps < Len(entries) THEN start + ps ELSE Len(entries)
    IN  [first |-> start + 1, last |-> end, of |-> Len(entries),
         rows |-> [k \in 1..(end - start) |->
                     [no |-> start + k,
                      entry |-> entries[start + k],
                      duration |-> dur_str(entries[start + k].duration_s)]]]

\* lines 68-73: the choices of the navigation menu
Choices(pg, total, ps) ==
    (IF pg > 0 THEN {"Previous"} ELSE {})
        \cup (IF pg < total_pages(total, ps) - 1 THEN {"Next"} ELSE {})
        \cup {"Back"}

R_english ==
    << <<"correct", Num(2)>>, <<"wrong", Num(1)>>, <<"unanswered", Num(0)>>,
       <<"total", Num(3)>>, <<"duration_s", Num(75)>>,
       <<"timestamp", VStr(<<"t", "1">>)>> >>

R_legacy ==
    << <<"tac'nih", Num(1)>>, <<"pogres'nih", Num(1)>>, <<"neodgovorenih", Num(1)>>,
       <<"ukupno", Num(3)>>, <<"trajanje_s", Num(7)>>,
       <<"vrijeme", VStr(<<"t", "2">>)>> >>

R_mixed ==
    << <<"correct", Num(2)>>, <<"tac'nih", Num(1)>>, <<"wrong", Num(0)>>,
       <<"pogres'nih", Num(1)>>, <<"total", Num(4)>>, <<"duration_s", Num(1)>>,
       <<"trajanje_s", Num(9)>>, <<"timestamp", VStr(<<"t", "1">>)>> >>

R_missing == << <<"correct", Num(2)>>, <<"wrong", Num(1)>> >>

R_counts ==
    << <<"tacnih", Num(1)>>, <<"correct_count", Num(2)>>, <<"wrong_count", Num(1)>>,
       <<"unanswered_count", Num(1)>>, <<"total_questions", Num(5)>> >>

R_null == << <<"correct", Null>>, <<"pogresnih", Num(1)>> >>

R_empty == <<>>

ScorePool == {R_english, R_legacy, R_mixed, R_missing, R_counts, R_null, R_empty}

ScoreLists == UNION { [1..n -> ScorePool] : n \in 0..MaxScores }

PageSizes == {1, 25}

\* show_scores_paginated(scores, page_size) up to its first menu
ShowScores(ps) ==
    /\ UNCHANGED notView
    /\ view_pc = "idle"
    /\ UNCHANGED scores
    /\ page_size' = ps
    /\ normalized' = [n \in 1..Len(scores) |-> normalize(scores[n])]
    /\ page' = 0
    /\ table' = Table(normalized', 0, ps)
    /\ view_pc' = "navigation"

\* the user picks an entry of the navigation menu, or cancels it
Navigate(action) ==
    /\ UNCHANGED notView
    /\ view_pc = "navigation"
    /\ action \in Choices(page, Len(normalized), page_size) \cup {"None"}
    /\ UNCHANGED <<scores, page_size, normalized>>
    /\ IF action \in {"Previous", "Next"}
       THEN /\ page' = IF action = "Next" THEN page + 1 ELSE page - 1
            /\ table' = Table(normalized, page', page_size)
            /\ view_pc' = "navigation"
       ELSE /\ UNCHANGED <<page, table>>
            /\ view_pc' = "done"

\* ------------------------------------------------------------- flashcards
\* the lines a user types at the two prompts of a card
FlashInputs == {<<>>, <<"x">>, <<" ", "X">>, <<"n">>}

\* ord(key) - 97 for the keys a..d
ord97(key) == (CHOOSE n \in 1..4 : chr97(n - 1) = key) - 1

Digits == <<"0", "1", "2", "3", "4", "5", "6", "7", "8", "9">>

\* int(val) succeeds, for texts of at most one character
is_int(val) == Len(val) = 1 /\ InSeq(Digits, val[1])

\* int(val) for a one-digit text
int(val) == IndexOf(Digits, val[1]) - 1

\* list[n] succeeds for -len <= n < len
Indexable(list, n) == -Len(list) <= n /\ n < Len(list)

\* lines 349-352 for one entry of answers: "ok" or the exception raised
reveal_entry(pairs, en) ==
    IF ~Indexable(pairs.left, ord97(en[1])) THEN "IndexError"
    ELSE IF ~is_int(en[2]) THEN "ValueError"
    ELSE IF ~Indexable(pairs.right, int(en[2]) - 1) THEN "IndexError"
    ELSE "ok"

\* lines 340-356: printing the answer of card q, "ok" or the first exception
reveal(q) ==
    IF q.type = "match"
    THEN LET bad == {n \in 1..Len(q.pairs.answers) :
                        reveal_entry(q.pairs, q.pairs.answers[n]) # "ok"}
         IN  IF bad = {} THEN "ok"
             ELSE reveal_entry(q.pairs,
                      q.pairs.answers[CHOOSE n \in bad : \A m \in bad : n <= m])
    ELSE "ok"

\* a confirmed exit that is ignored
exit_ignored(yes) == FALSE

\* lines 336 and 360: _check_quit_confirmation's answer
exit_confirmed(yes) == yes

\* lines 335 and 359
asks_exit(line) == lower(strip(line)) = <<"x">>

NoInput == [kind |-> "none", line |-> <<>>, yes |-> FALSE]

FlashIdle ==
    /\ fc_pc = "idle"
    /\ fc_cards = <<>>
    /\ fc_k = 0
    /\ fc_shown = <<>>
    /\ fc_revealed = <<>>
    /\ fc_last = NoInput
    /\ fc_outcome = "none"
    /\ fc_skipped = 0

\* flashcards_mode returns or raises
FlashEnded(how) ==
    /\ fc_pc' = "done"
    /\ fc_outcome' = how
    /\ UNCHANGED <<fc_cards, fc_k, fc_shown, fc_revealed>>

\* lines 340-358: the answer of the current card, then the second prompt
FlashReveal ==
    IF reveal(fc_cards[fc_k]) = "ok"
    THEN /\ fc_revealed' = Append(fc_revealed, fc_k)
         /\ fc_pc' = "prompt2"
         /\ UNCHANGED <<fc_cards, fc_k, fc_shown, fc_outcome>>
    ELSE FlashEnded(reveal(fc_cards[fc_k]))

\* lines 330-334: the next card's panel and first prompt, or the end of
\* the for loop
FlashNextCard ==
    IF fc_k < Len(fc_cards)
    THEN /\ fc_k' = fc_k + 1
         /\ fc_shown' = Append(fc_shown, fc_k + 1)
         /\ fc_pc' = "prompt1"
         /\ UNCHANGED <<fc_cards, fc_revealed, fc_outcome>>
    ELSE FlashEnded("finished")

\* flashcards_mode(questions) up to its first prompt or its return
FlashStart ==
    /\ UNCHANGED notFlash
    /\ AtMenu
    /\ fc_pc = "idle"
    /\ fc_last' = NoInput
    /\ IF questions = <<>>
       THEN /\ fc_skipped' = 0
            /\ FlashEnded("no_questions")
       ELSE IF \E n \in 1..Len(questions) :
                    _is_valid_question(questions[n]) \notin {"True", "False"}
            THEN /\ fc_skipped' = 0
                 /\ FlashEnded("AttributeError")
       ELSE LET valid_questions == SelectSeq(questions, kept)
            IN  /\ fc_skipped' = Len(questions) - Len(valid_questions)
                /\ IF valid_questions = <<>>
                   THEN FlashEnded("no_valid")
                   ELSE \E qs \in Shuffles(valid_questions) :
                           /\ fc_cards' = qs
                           /\ fc_k' = 1
                           /\ fc_shown' = <<1>>
                           /\ fc_pc' = "prompt1"
                           /\ UNCHANGED <<fc_revealed, fc_outcome>>

\* the user answers Prompt.ask at line 334 or line 358
FlashAnswer(line) ==
    /\ UNCHANGED notFlash
    /\ fc_pc \in {"prompt1", "prompt2"}
    /\ fc_last' = [kind |-> "line", line |-> line, yes |-> FALSE]
    /\ UNCHANGED fc_skipped
    /\ IF asks_exit(line)
       THEN /\ fc_pc' = IF fc_pc = "prompt1" THEN "confirm1" ELSE "confirm2"
            /\ UNCHANGED <<fc_cards, fc_k, fc_shown, fc_revealed, fc_outcome>>
       ELSE IF fc_pc = "prompt1" THEN FlashReveal ELSE FlashNextCard

\* the user answers the confirmation at line 336 or line 360
FlashConfirm(yes) ==
    /\ UNCHANGED notFlash
    /\ fc_pc \in {"confirm1", "confirm2"}
    /\ fc_last' = [kind |-> "confirm", line |-> <<>>, yes |-> yes]
    /\ UNCHANGED fc_skipped
    /\ IF exit_confirmed(yes)
       THEN FlashEnded("exited")
       ELSE IF fc_pc = "confirm1" THEN FlashReveal ELSE FlashNextCard

\* ------------------------------------------------ quiz_session of app.py
AppIdle ==
    /\ app_pc = "idle"
    /\ app_outcome = "none"

\* line 558 and the dispatch after it, for the first question of the loop:
\* "ok" or the exception q['question'] or q['type'] raises
first_question(q) ==
    IF ~q.isdict THEN "TypeError"
    ELSE IF "question" \notin q.keys \/ "type" \notin q.keys THEN "KeyError"
    ELSE "ok"

\* app.py's quiz_session(questions, score_file) up to the prompt of its
\* first question: random.shuffle at line 552 reorders the list its
\* caller passed
AppQuizStart ==
    /\ UNCHANGED notApp
    /\ AtMenu
    /\ app_pc = "idle"
    /\ IF questions = <<>>
       THEN /\ app_pc' = "done"
            /\ app_outcome' = "no_questions"
            /\ UNCHANGED questions
       ELSE \E qs \in Shuffles(questions) :
               /\ questions' = qs
               /\ IF first_question(qs[1]) = "ok"
                  THEN app_pc' = "question" /\ app_outcome' = "none"
                  ELSE app_pc' = "done" /\ app_outcome' = first_question(qs[1])

\* ---------------------------------------------------------- question cache
cleanup_every == 100       \* questions.py:24, app.py:118

NoQFile == [exists |-> FALSE, mtime |-> 0, data |-> <<>>]
NoEntry == [present |-> FALSE, mtime |-> 0, data |-> <<>>]
NoCall ==
    [call |-> "none", value |-> <<>>, error |-> "none", loaded |-> FALSE]

\* what the question file may hold
FileContents == {<<>>, <<Q_fillin>>, <<Q_multiple, Q_fillin>>}

\* core/questions.py assigns no module-level cache_cleanup_counter
\* (lines 1-12); app.py does at line 33
counter_bound(module) == module = "app"

\* cleanup_questions_cache: entries whose file no longer exists go
cleanup_questions_cache(cache, file) ==
    IF cache.present /\ ~file.exists THEN NoEntry ELSE cache

\* get_questions(filename) in module `module` with that module's cache and
\* counter: the call's return value or exception, whether load_json ran,
\* and the module's cache and counter afterwards
get_questions(module, cache, counter, file) ==
    IF ~file.exists
    THEN [value |-> <<>>, error |-> "none", loaded |-> FALSE,
          cache |-> cache, counter |-> counter]
    ELSE IF ~counter_bound(module)
    THEN [value |-> <<>>, error |-> "NameError", loaded |-> FALSE,
          cache |-> cache, counter |-> counter]
    ELSE LET swept == counter + 1 > cleanup_every
             cache1 == IF swept THEN cleanup_questions_cache(cache, file)
                       ELSE cache
             counter1 == IF swept THEN 0 ELSE counter + 1
         IN  IF cache1.present /\ cache1.mtime = file.mtime
             THEN [value |-> cache1.data, error |-> "none", loaded |-> FALSE,
                   cache |-> cache1, counter |-> counter1]
             ELSE [value |-> file.data, error |-> "none", loaded |-> TRUE,
                   cache |-> [present |-> TRUE, mtime |-> file.mtime,
                              data |-> file.data],
                   counter |-> counter1]

CacheIdle ==
    /\ q_file = NoQFile
    /\ clock = 0
    /\ core_cache = NoEntry
    /\ app_cache = NoEntry
    /\ app_counter = 0
    /\ gq_last = NoCall

\* something outside the program writes the file; the file system stamps
\* it with a later mtime
ModifyFile(data) ==
    /\ UNCHANGED notCache
    /\ clock < MaxWrites
    /\ clock' = clock + 1
    /\ q_file' = [exists |-> TRUE, mtime |-> clock + 1, data |-> data]
    /\ gq_last' = NoCall
    /\ UNCHANGED <<core_cache, app_cache, app_counter>>

\* something outside the program deletes the file
DeleteFile ==
    /\ UNCHANGED notCache
    /\ q_file.exists
    /\ q_file' = NoQFile
    /\ gq_last' = NoCall
    /\ UNCHANGED <<clock, core_cache, app_cache, app_counter>>

\* qm2.core.questions.get_questions(path)
CoreGetQuestions ==
    /\ UNCHANGED notCache
    /\ LET r == get_questions("core", core_cache, 0, q_file)
       IN  /\ core_cache' = r.cache
           /\ gq_last' = [call |-> "core", value |-> r.value,
                          error |-> r.error, loaded |-> r.loaded]
    /\ UNCHANGED <<q_file, clock, app_cache, app_counter>>

\* qm2.app.get_questions(path)
AppGetQuestions ==
    /\ UNCHANGED notCache
    /\ LET r == get_questions("app", app_cache, app_counter, q_file)
       IN  /\ app_cache' = r.cache
           /\ app_counter' = r.counter
           /\ gq_last' = [call |-> "app", value |-> r.value,
                          error |-> r.error, loaded |-> r.loaded]
    /\ UNCHANGED <<q_file, clock, core_cache>>

\* qm2.app.save_json(path, data) succeeding: the file is written and the
\* cache entry of the path replaced
AppSaveJson(data) ==
    /\ UNCHANGED notCache
    /\ clock < MaxWrites
    /\ clock' = clock + 1
    /\ q_file' = [exists |-> TRUE, mtime |-> clock + 1, data |-> data]
    /\ app_cache' = [present |-> TRUE, mtime |-> clock + 1, data |-> data]
    /\ gq_last' = NoCall
    /\ UNCHANGED <<core_cache, app_counter>>

\* ------------------------------------------------------ one handler call
NoEvent == [kind |-> "none", text |-> <<>>]

HdIdle ==
    /\ hd_system = "Linux"
    /\ hd_q = Q_fillin
    /\ hd_options = <<>>
    /\ hd_pc = "returned"
    /\ hd_elapsed = 0
    /\ hd_remaining = 0
    /\ hd_event = NoEvent
    /\ hd_got = None
    /\ hd_result = "none"

MaxCalls == 3              \* calls of input_with_timeout per behaviour
MaxLines == 3              \* lines typed per behaviour

NotReturned == [done |-> FALSE, got |-> None]

ThIdle ==
    /\ th_calls = 0
    /\ th_current = 0
    /\ th_alive = {}
    /\ th_value = [c \in 1..MaxCalls |-> None]
    /\ th_returned = [c \in 1..MaxCalls |-> NotReturned]
    /\ th_lines = <<>>

MaxSaves == 3              \* calls of save_json per behaviour

NoTarget == [state |-> "absent", mtime |-> 0, data |-> VList(<<>>)]
NoCached == [present |-> FALSE, mtime |-> 0, data |-> VList(<<>>)]
NoSave == [called |-> FALSE, data |-> VList(<<>>), ok |-> FALSE,
           file |-> NoTarget, cache |-> NoCached]

SvIdle ==
    /\ sv_file = NoTarget
    /\ sv_cache = NoCached
    /\ sv_clock = 0
    /\ sv_last = NoSave

RestIdle == HdIdle /\ ThIdle /\ SvIdle

\* the handler returns res
HdReturn(res) ==
    /\ hd_pc' = "returned"
    /\ hd_result' = res
    /\ UNCHANGED <<hd_elapsed, hd_remaining>>

\* top of the while loop (lines 97-107, 137-147), e seconds in
HdLoopTop(e) ==
    IF remaining_time - e <= 0
    THEN HdReturn("timeout")
    ELSE /\ hd_pc' = "input"
         /\ hd_elapsed' = e
         /\ hd_remaining' = remaining_time - e
         /\ hd_result' = "none"

\* lines 113-129 or 153-165 for the question of the call
hd_step(line) ==
    IF hd_q.type = "fillin" THEN fillin_step(hd_q, line)
    ELSE choice_step(hd_q, hd_options, line)

\* the user types a line (or closes the input) d seconds into the prompt
HdAnswer(ev, d) ==
    /\ UNCHANGED notHd
    /\ hd_pc = "input"
    /\ d < hd_remaining
    /\ UNCHANGED <<hd_system, hd_q, hd_options>>
    /\ hd_event' = ev
    /\ hd_got' = input_with_timeout(hd_system, ev)
    /\ LET r == input_with_timeout(hd_system, ev)
           e == hd_elapsed + d
       IN  IF r.none THEN HdReturn("timeout")
           ELSE CASE hd_step(r.value) = "confirm" ->
                        /\ hd_pc' = "confirm"
                        /\ hd_elapsed' = e
                        /\ UNCHANGED <<hd_remaining, hd_result>>
                  [] hd_step(r.value) = "invalid" -> HdLoopTop(e)
                  [] hd_step(r.value) \in {"correct", "wrong"} ->
                        HdReturn(hd_step(r.value))

\* no line arrives before the deadline
HdTimeout ==
    /\ UNCHANGED notHd
    /\ hd_pc = "input"
    /\ UNCHANGED <<hd_system, hd_q, hd_options>>
    /\ hd_event' = [kind |-> "silence", text |-> <<>>]
    /\ hd_got' = None
    /\ HdReturn("timeout")

\* the user answers the quit confirmation after d seconds
HdConfirm(ans, d) ==
    /\ UNCHANGED notHd
    /\ hd_pc = "confirm"
    /\ UNCHANGED <<hd_system, hd_q, hd_options, hd_got>>
    /\ hd_event' = [kind |-> IF ans THEN "yes" ELSE "no", text |-> <<>>]
    /\ IF ans THEN HdReturn("quit") ELSE HdLoopTop(hd_elapsed + d)

\* ------------------------------------------------ utils.files.save_json
\* what the environment can do to a call: nothing, OSError from makedirs
\* or open, OSError while json.dump writes, an exception from abspath or
\* getmtime after the file was written
SaveEnvFaults == {"none", "open", "write", "stat"}

\* lines 63-64: the file after open(path, "w") and json.dump. open
\* truncates the file before json.dump runs, so a dump that raises leaves
\* text that is no JSON document.
written_file(data, fault, now) ==
    IF fault = "write" \/ ~serializable(data)
    THEN [state |-> "corrupt", mtime |-> now, data |-> VList(<<>>)]
    ELSE [state |-> "valid", mtime |-> now, data |-> data]

\* lines 58-71: save_json returns True
save_returns_true(data, fault) ==
    fault \notin {"open", "write"} /\ serializable(data)

\* lines 58-82: save_json(path, data)
FilesSaveJson(data, fault) ==
    /\ UNCHANGED notSv
    /\ sv_clock < MaxSaves
    /\ sv_clock' = sv_clock + 1
    /\ sv_last' = [called |-> TRUE, data |-> data,
                   ok |-> save_returns_true(data, fault),
                   file |-> sv_file, cache |-> sv_cache]
    /\ sv_file' = IF fault = "open" THEN sv_file
                  ELSE written_file(data, fault, sv_clock + 1)
    /\ sv_cache' = IF save_returns_true(data, fault) /\ fault # "stat"
                   THEN [present |-> TRUE, mtime |-> sv_clock + 1, data |-> data]
                   ELSE sv_cache

\* ------------------------------------- input_with_timeout, worker threads
\* lines 44-53: a call starts its worker, which blocks in input(), and
\* joins it
ThCall ==
    /\ UNCHANGED notTh
    /\ th_current = 0
    /\ th_calls < MaxCalls
    /\ th_calls' = th_calls + 1
    /\ th_current' = th_calls + 1
    /\ th_alive' = th_alive \cup {th_calls + 1}
    /\ UNCHANGED <<th_value, th_returned, th_lines>>

\* lines 46-50, 53-56: the user types a line (or closes the input) while a
\* call waits. Every worker still blocked in input() reads the same
\* standard input, and the one the runtime hands the line to is w: it
\* stores the line in the result of its own call and ends. The join of the
\* current call returns only when w is its worker.
ThLine(w, ev) ==
    /\ UNCHANGED notTh
    /\ th_current # 0
    /\ w \in th_alive
    /\ Len(th_lines) < MaxLines
    /\ th_lines' = Append(th_lines, [text |-> ev.text, current |-> th_current,
                                     reader |-> w])
    /\ th_alive' = th_alive \ {w}
    /\ th_value' = [th_value EXCEPT ![w] = input_with_timeout("Windows", ev)]
    /\ UNCHANGED th_calls
    /\ IF w = th_current
       THEN /\ th_returned' = [th_returned EXCEPT
                                  ![w] = [done |-> TRUE, got |-> th_value'[w]]]
            /\ th_current' = 0
       ELSE UNCHANGED <<th_returned, th_current>>

\* lines 53-55: the join times out with the worker alive; the call returns
\* None and leaves the worker blocked in input()
ThTimeout ==
    /\ UNCHANGED notTh
    /\ th_current # 0
    /\ th_current \in th_alive
    /\ th_returned' = [th_returned EXCEPT
                          ![th_current] = [done |-> TRUE, got |-> None]]
    /\ th_current' = 0
    /\ UNCHANGED <<th_calls, th_alive, th_value, th_lines>>

\* ------------------------------------------------------------------ specs
vars == <<menuVars, restVars>>

EngineIdle ==
    /\ sessions = 0
    /\ pc = "idle"
    /\ outcome = "none"
    /\ error = "none"
    /\ shuffled = <<>>
    /\ qi = 0
    /\ correct_count = 0
    /\ wrong_count = 0
    /\ timeout_count = 0
    /\ options = <<>>
    /\ i = 0
    /\ user_mapping = <<>>
    /\ elapsed = 0
    /\ remaining = 0
    /\ handled = <<>>
    /\ shown_stats = <<>>
    /\ file_ops = <<>>
    /\ save_ok = TRUE
    /\ skipped = 0
    /\ save_report = <<>>

ConvIdle ==
    /\ json_out = NoJson
    /\ conv_last = "none"
    /\ conv_error = "none"
    /\ exported = FALSE
    /\ dialect = "none"

ViewIdle ==
    /\ scores = <<>>
    /\ page_size = 25
    /\ normalized = <<>>
    /\ page = 0
    /\ table = <<>>
    /\ view_pc = "idle"

\* the quiz engine over one question list and one score file
Init ==
    /\ platform_system \in {"Windows", "Linux"}
    /\ questions \in QuestionLists
    /\ score_file \in InitialScoreFiles
    /\ EngineIdle
    /\ json_file = NoJson
    /\ csv_file = NoCsv
    /\ ConvIdle
    /\ ViewIdle
    /\ FlashIdle
    /\ CacheIdle
    /\ AppIdle
    /\ RestIdle

Next ==
    \/ StartSession
    \/ \E ev \in InputEvents, d \in Delays : Answer(ev, d)
    \/ Timeout
    \/ \E ans \in BOOLEAN, d \in Delays : Confirm(ans, d)
    \/ \E confirm \in BOOLEAN, fault \in SaveFaults : ResetScores(confirm, fault)

Spec == Init /\ [][Next]_vars

\* time advances: the step that ends a prompt at its deadline, or a line
\* or a confirmation that took the user DelayStep seconds
TimePasses ==
    \/ Timeout
    \/ \E ev \in InputEvents : Answer(ev, DelayStep)
    \/ \E ans \in BOOLEAN : Confirm(ans, DelayStep)

\* the engine while time advances and every confirmation is answered
SpecLive == Init /\ [][Next]_vars /\ WF_vars(TimePasses)

\* the converter over one source file
InitConv ==
    /\ platform_system = "Linux"
    /\ questions = <<>>
    /\ score_file = NoFile
    /\ EngineIdle
    /\ ConvIdle
    /\ ViewIdle
    /\ FlashIdle
    /\ CacheIdle
    /\ AppIdle
    /\ RestIdle
    /\ \/ /\ json_file \in {[exists |-> TRUE, rows |-> r] : r \in JsonInputs}
          /\ csv_file = NoCsv
       \/ /\ json_file = NoJson
          /\ csv_file \in CsvInputs
       \/ /\ json_file = [exists |-> TRUE, rows |-> <<>>]
          /\ csv_file \in HeaderOnlyCsvs

NextConv ==
    \/ JsonToCsv
    \/ CsvToJson

SpecConv == InitConv /\ [][NextConv]_vars

\* the score viewer over one list of stored records
InitScores ==
    /\ platform_system = "Linux"
    /\ questions = <<>>
    /\ score_file = NoFile
    /\ EngineIdle
    /\ json_file = NoJson
    /\ csv_file = NoCsv
    /\ ConvIdle
    /\ scores \in ScoreLists
    /\ page_size = 25
    /\ normalized = <<>>
    /\ page = 0
    /\ table = <<>>
    /\ view_pc = "idle"
    /\ FlashIdle
    /\ CacheIdle
    /\ AppIdle
    /\ RestIdle

NextScores ==
    \/ \E ps \in PageSizes : ShowScores(ps)
    \/ \E action \in {"Previous", "Next", "Back", "None"} : Navigate(action)

SpecScores == InitScores /\ [][NextScores]_vars

\* a match card whose answers name a right item that does not exist
Q_match_far ==
    [isdict |-> TRUE, keys |-> {"type", "question", "pairs"},
     type |-> "match", correct |-> <<>>, wrong_answers |-> <<>>,
     pairs |-> [isdict |-> TRUE, left |-> << <<"A">>, <<"B">> >>,
                right |-> << <<"1">>, <<"2">> >>,
                answers |-> << <<"a", <<"3">> >> >>]]

FlashPool == QuestionPool \o <<Q_match_far>>

\* the lists handed to flashcards_mode, up to the order of their elements
FlashLists ==
    UNION { { [k \in 1..n |-> FlashPool[f[k]]] :
                f \in { g \in [1..n -> 1..Len(FlashPool)] :
                          \A k \in 1..(n - 1) : g[k] <= g[k + 1] } } :
            n \in 0..MaxQuestions }

\* flashcards over one question list, next to one score file
InitFlash ==
    /\ platform_system = "Linux"
    /\ questions \in FlashLists
    /\ score_file \in InitialScoreFiles
    /\ EngineIdle
    /\ json_file = NoJson
    /\ csv_file = NoCsv
    /\ ConvIdle
    /\ ViewIdle
    /\ FlashIdle
    /\ CacheIdle
    /\ AppIdle
    /\ RestIdle

NextFlash ==
    \/ FlashStart
    \/ \E line \in FlashInputs : FlashAnswer(line)
    \/ \E yes \in BOOLEAN : FlashConfirm(yes)

SpecFlash == InitFlash /\ [][NextFlash]_vars

\* the question cache over one path
InitCache ==
    /\ platform_system = "Linux"
    /\ questions = <<>>
    /\ score_file = NoFile
    /\ EngineIdle
    /\ json_file = NoJson
    /\ csv_file = NoCsv
    /\ ConvIdle
    /\ ViewIdle
    /\ FlashIdle
    /\ CacheIdle
    /\ AppIdle
    /\ RestIdle

NextCache ==
    \/ \E data \in FileContents : ModifyFile(data)
    \/ DeleteFile
    \/ CoreGetQuestions
    \/ AppGetQuestions
    \/ \E data \in FileContents : AppSaveJson(data)

SpecCache == InitCache /\ [][NextCache]_vars

\* the three functions that are handed a question list, over one list
InitLists ==
    /\ platform_system = "Linux"
    /\ questions \in QuestionLists
    /\ score_file = NoFile
    /\ EngineIdle
    /\ json_file = NoJson
    /\ csv_file = NoCsv
    /\ ConvIdle
    /\ ViewIdle
    /\ FlashIdle
    /\ CacheIdle
    /\ AppIdle
    /\ RestIdle

NextLists ==
    \/ StartSession
    \/ \E ev \in InputEvents, d \in Delays : Answer(ev, d)
    \/ Timeout
    \/ \E ans \in BOOLEAN, d \in Delays : Confirm(ans, d)
    \/ FlashStart
    \/ \E line \in FlashInputs : FlashAnswer(line)
    \/ \E yes \in BOOLEAN : FlashConfirm(yes)
    \/ AppQuizStart

SpecLists == InitLists /\ [][NextLists]_vars

\* questions whose texts differ in case and surrounding blanks
H_multiple ==
    [isdict |-> TRUE, keys |-> {"type", "question", "correct", "wrong_answers"},
     type |-> "multiple", correct |-> <<" ", "P">>,
     wrong_answers |-> << <<"p", " ">>, <<"L">> >>, pairs |-> NoPairs]

H_truefalse ==
    [isdict |-> TRUE, keys |-> {"type", "question", "correct", "wrong_answers"},
     type |-> "truefalse", correct |-> <<"T">>,
     wrong_answers |-> << <<"F">> >>, pairs |-> NoPairs]

H_fillin_blank ==
    [isdict |-> TRUE, keys |-> {"type", "question", "correct"},
     type |-> "fillin", correct |-> <<" ", "p">>, wrong_answers |-> <<>>,
     pairs |-> NoPairs]

H_fillin_x ==
    [isdict |-> TRUE, keys |-> {"type", "question", "correct"},
     type |-> "fillin", correct |-> <<"x">>, wrong_answers |-> <<>>,
     pairs |-> NoPairs]

HandlerPool == {H_multiple, H_truefalse, Q_fillin, H_fillin_blank, H_fillin_x}

HandlerLines ==
    {<<>>, <<"a">>, <<" ", "A">>, <<"b">>, <<"c">>, <<"x">>, <<"X", " ">>,
     <<"p">>, <<"P", " ">>, <<" ", "p">>}

HandlerEvents ==
    {[kind |-> "line", text |-> l] : l \in HandlerLines}
        \cup {[kind |-> "eof", text |-> <<>>]}

\* one call of the choice or fill-in handler, at its first prompt
InitHd ==
    /\ platform_system = "Linux"
    /\ questions = <<>>
    /\ score_file = NoFile
    /\ EngineIdle
    /\ json_file = NoJson
    /\ csv_file = NoCsv
    /\ ConvIdle
    /\ ViewIdle
    /\ FlashIdle
    /\ CacheIdle
    /\ AppIdle
    /\ ThIdle
    /\ SvIdle
    /\ hd_system \in {"Windows", "Linux"}
    /\ hd_q \in HandlerPool
    /\ hd_options \in
          IF hd_q.type = "fillin" THEN {<<>>}
          ELSE Shuffles(<<hd_q.correct>> \o hd_q.wrong_answers)
    /\ hd_pc = "input"
    /\ hd_elapsed = 0
    /\ hd_remaining = remaining_time
    /\ hd_event = NoEvent
    /\ hd_got = None
    /\ hd_result = "none"

NextHd ==
    \/ \E ev \in HandlerEvents, d \in Delays : HdAnswer(ev, d)
    \/ HdTimeout
    \/ \E ans \in BOOLEAN, d \in Delays : HdConfirm(ans, d)

SpecHd == InitHd /\ [][NextHd]_vars

ThreadEvents ==
    {[kind |-> "line", text |-> l] : l \in {<<"a">>, <<" ", "b">>}}
        \cup {[kind |-> "eof", text |-> <<>>]}

\* successive timed prompts on a platform that uses the worker thread
InitTh ==
    /\ platform_system = "Windows"
    /\ questions = <<>>
    /\ score_file = NoFile
    /\ EngineIdle
    /\ json_file = NoJson
    /\ csv_file = NoCsv
    /\ ConvIdle
    /\ ViewIdle
    /\ FlashIdle
    /\ CacheIdle
    /\ AppIdle
    /\ RestIdle

NextTh ==
    \/ ThCall
    \/ \E w \in 1..MaxCalls, ev \in ThreadEvents : ThLine(w, ev)
    \/ ThTimeout

SpecTh == InitTh /\ [][NextTh]_vars

\* the values handed to save_json: lists of records, one holding a set
SaveData ==
    { VList(<<>>),
      VList(<<VDict(<< <<n_question, VStr(<<"Q">>)>> >>)>>),
      VList(<<VDict(<< <<n_question, VStr(<<"Q">>)>> >>),
              VDict(<< <<n_question, VStr(<<"P">>)>> >>)>>),
      VList(<<VDict(<< <<n_question, VSet(<<VInt(<<"1">>)>>)>> >>)>>) }

\* successive calls of save_json on one path
InitSave ==
    /\ platform_system = "Linux"
    /\ questions = <<>>
    /\ score_file = NoFile
    /\ EngineIdle
    /\ json_file = NoJson
    /\ csv_file = NoCsv
    /\ ConvIdle
    /\ ViewIdle
    /\ FlashIdle
    /\ CacheIdle
    /\ AppIdle
    /\ RestIdle

NextSave == \E data \in SaveData, fault \in SaveEnvFaults : FilesSaveJson(data, fault)

SpecSave == InitSave /\ [][NextSave]_vars

\* ------------------------------------------------------ session properties
\* the entry a handler return adds to handled in this step, if any
Returned(res) ==
    /\ Len(handled') > Len(handled)
    /\ handled'[Len(handled) + 1].result = res

\* C1: a completed (non-quit) session displays and saves counters with
\* correct + wrong + unanswered = total, total being the number of questions
\* that passed the validity filter.
C1_ScoringInvariant ==
    outcome = "completed" =>
        LET st == shown_stats[1]
        IN  /\ st.total = Len(shuffled)
            /\ st.correct + st.wrong + st.unanswered = st.total
            /\ save_ok =>
                 LET rec == score_file.data[Len(score_file.data)]
                 IN  rec.correct + rec.wrong + rec.unanswered = rec.total

\* C2: when a handler returns quit, quiz_session returns in the same step:
\* the loop does not move to a later question, no statistics are displayed
\* and the score file is neither loaded nor saved.
C2_QuitReturnsAtOnce ==
    [][Returned("quit") =>
          /\ pc' = "idle"
          /\ outcome' = "quit"
          /\ qi' = qi
          /\ Len(handled') = Len(handled) + 1
          /\ shown_stats' = <<>>
          /\ file_ops' = <<>>
          /\ score_file' = score_file]_vars

C2_Witness ==
    /\ outcome = "quit"
    /\ qi < Len(shuffled)
    /\ shuffled[qi + 1].type \in KnownTypes
    /\ score_file.data # <<>>

C4_HandlersNeverRaise == ~(outcome = "error" /\ qi >= 1)

\* C5: on every record quiz_session filters, _is_valid_question returns
\* True exactly when the record satisfies the validity rule and False on
\* everything else; it never raises.
C5_ValidityTotal ==
    sessions > 0 =>
        \A n \in 1..Len(questions) :
            _is_valid_question(questions[n])
                = IF SpecValid(questions[n]) THEN "True" ELSE "False"

\* C10 as claimed: whenever a handler of any type returns timeout because no
\* line arrived in time, the question's correct answer has been displayed.
C10_TimeoutShowsAnswer ==
    \A n \in 1..Len(handled) :
        (handled[n].result = "timeout" /\ handled[n].msg # "none")
            => handled[n].msg = "time_up_correct_answer"

\* C10 as amended: when no line arrives in time, a multiple, truefalse or
\* fill-in handler returns timeout with the correct answer displayed, a
\* match handler returns timeout with a time-is-up message that does not
\* show the mapping; in every case the question is counted as unanswered
\* only and the loop moves on to the next question.
C10_TimeoutCountsUnanswered ==
    [][(Returned("timeout") /\ handled'[Len(handled) + 1].msg # "none") =>
          LET msg == handled'[Len(handled) + 1].msg
          IN  /\ IF shuffled[qi].type = "match"
                 THEN msg \in {"time_up_not_answered", "time_up_not_completed"}
                 ELSE msg = "time_up_correct_answer"
              /\ timeout_count' = timeout_count + 1
              /\ correct_count' = correct_count
              /\ wrong_count' = wrong_count
              /\ qi' > qi
              /\ outcome' # "quit"]_vars

C10_Witness ==
    /\ pc = "input"
    /\ Len(handled) = 1
    /\ handled[1].result = "timeout"
    /\ handled[1].msg = "time_up_correct_answer"
    /\ timeout_count = 1
    /\ qi = 2


\* C11: a matching question whose every left item got an answer before
\* the deadline, without a quit, ends correct when the collected answers
\* equal pairs.answers key by key and wrong otherwise; it ends timeout
\* only when fewer answers were collected than there are left items.
C11_MatchVerdict ==
    \A n \in 1..Len(handled) :
        LET e == handled[n]
            q == shuffled[e.k]
        IN  (q.type = "match" /\ e.msg # "not_properly_defined") =>
                /\ (e.answered = Len(q.pairs.left) /\ e.result # "quit") =>
                        /\ e.result = "correct" <=> e.agrees
                        /\ e.result = "wrong" <=> ~e.agrees
                /\ e.result = "timeout" => e.answered < Len(q.pairs.left)

\* number of records of the caller's list that pass the validity predicate
ValidCount == Cardinality({n \in 1..Len(questions) : SpecValid(questions[n])})

\* C12: only questions that passed the validity predicate reach a handler,
\* each position of the session's list at most once; the skipped count is
\* the input length minus the number of valid questions; and a session
\* without a valid question presents nothing, shows no statistics and
\* makes no load or save of the score file.
C12_OnlyValidOnce ==
    /\ \A n \in 1..Len(handled) :
          /\ handled[n].k \in 1..Len(shuffled)
          /\ SpecValid(shuffled[handled[n].k])
          /\ \A m \in 1..(n - 1) : handled[m].k < handled[n].k
    /\ pc # "idle" =>
          /\ SpecValid(shuffled[qi])
          /\ \A n \in 1..Len(handled) : handled[n].k < qi
    /\ outcome \in {"running", "completed", "quit", "no_valid"} =>
          /\ skipped = Len(questions) - ValidCount
          /\ Len(shuffled) = ValidCount
    /\ outcome = "no_valid" =>
          /\ ValidCount = 0
          /\ handled = <<>>
          /\ shown_stats = <<>>
          /\ file_ops = <<>>

C12_Witness ==
    /\ outcome = "completed"
    /\ Len(questions) = 2
    /\ skipped = 1
    /\ Len(handled) = 1
    /\ shuffled[handled[1].k].type \in KnownTypes
    /\ shown_stats # <<>>

\* ---------------------------------------------------- converter properties
\* json_out is what csv_to_json made of the CSV json_to_csv wrote for json_file
RoundTripped == exported /\ conv_last = "csv_to_json" /\ conv_error = "none"

TypeOf(row) == IF Has(row, n_type) THEN Get(row, n_type) ELSE VStr(<<>>)

\* the same left list, right list and answers mapping
SamePairs(p, q) ==
    /\ p.kind = "dict"
    /\ q.kind = "dict"
    /\ \A k \in {n_left, n_right, n_answers} : Has(p.v, k) /\ Has(q.v, k)
    /\ Get(p.v, n_left) = Get(q.v, n_left)
    /\ Get(p.v, n_right) = Get(q.v, n_right)
    /\ SameDict(Get(p.v, n_answers), Get(q.v, n_answers))

\* C6: json_to_csv followed by csv_to_json gives every match record back
\* with the same pairs: the same left and right sequences and the same
\* answers mapping.
C6_MatchRoundTrip ==
    RoundTripped =>
        \A n \in 1..Len(json_file.rows) :
            TypeOf(json_file.rows[n]) = VStr(t_match) =>
                /\ n <= Len(json_out.rows)
                /\ Has(json_out.rows[n], n_pairs)
                /\ SamePairs(Get(json_out.rows[n], n_pairs),
                             Get(json_file.rows[n], n_pairs))

\* the items of a list value, as a set
Items(x) == {x.v[n] : n \in 1..Len(x.v)}

OnlyChoiceAndFillin(rows) ==
    \A n \in 1..Len(rows) :
        TypeOf(rows[n]) \in {VStr(t_multiple), VStr(t_truefalse), VStr(t_fillin)}

\* C7: for a non-empty list of multiple, truefalse and fillin records,
\* json_to_csv followed by csv_to_json gives as many records in the same
\* order, each with the original type, question and correct and with the
\* original wrong_answers as a set.
C7_RoundTrip ==
    (RoundTripped /\ OnlyChoiceAndFillin(json_file.rows)) =>
        /\ Len(json_out.rows) = Len(json_file.rows)
        /\ \A n \in 1..Len(json_file.rows) :
              LET before == json_file.rows[n]
                  after == json_out.rows[n]
              IN  /\ \A k \in {n_type, n_question, n_correct, n_wrong_answers} :
                        Has(after, k)
                  /\ \A k \in {n_type, n_question, n_correct} :
                        Get(after, k) = Get(before, k)
                  /\ Get(after, n_wrong_answers).kind = "list"
                  /\ Items(Get(after, n_wrong_answers))
                        = Items(Get(before, n_wrong_answers))

C7_Witness ==
    /\ RoundTripped
    /\ json_file.rows = <<J_multiple, J_fillin>>
    /\ Len(json_out.rows) = 2
    /\ Get(json_out.rows[1], n_wrong_answers) = Strs(<< <<"L">>, <<"1">> >>)
    /\ Get(json_out.rows[2], n_wrong_answers) = VList(<<>>)

\* The normal-dialect CSV with the same content as a flattened one: per
\* row, left and right are the non-blank cells of the pairs/left/* and
\* pairs/right/* columns joined by "|", answers the non-blank cells of
\* the pairs/answers/<key> columns as key:value joined by ",".
RECURSIVE CellsUnder(_, _, _)
CellsUnder(header, cells, prefix) ==
    IF header = <<>> THEN <<>>
    ELSE IF StartsWith(Head(header), prefix) /\ NonBlank(Head(cells))
         THEN <<strip(Head(cells))>> \o CellsUnder(Tail(header), Tail(cells), prefix)
    ELSE CellsUnder(Tail(header), Tail(cells), prefix)

RECURSIVE AnswersUnder(_, _, _)
AnswersUnder(header, cells, prefix) ==
    IF header = <<>> THEN <<>>
    ELSE IF StartsWith(Head(header), prefix) /\ NonBlank(Head(cells))
         THEN <<SubSeq(Head(header), Len(prefix) + 1, Len(Head(header)))
                    \o <<":">> \o strip(Head(cells))>>
                  \o AnswersUnder(Tail(header), Tail(cells), prefix)
    ELSE AnswersUnder(Tail(header), Tail(cells), prefix)

CellAt(header, cells, name) ==
    IF \E n \in 1..Len(header) : header[n] = name
    THEN cells[CHOOSE n \in 1..Len(header) : header[n] = name]
    ELSE <<>>

NormalEquivalent(csv) ==
    [exists |-> TRUE,
     header |-> <<n_type, n_question, n_left, n_right, n_answers>>,
     rows |-> [n \in 1..Len(csv.rows) |->
                 <<CellAt(csv.header, csv.rows[n], n_type),
                   CellAt(csv.header, csv.rows[n], n_question),
                   Join(CellsUnder(csv.header, csv.rows[n],
                                   n_pairs \o <<"/">> \o n_left \o <<"/">>), <<"|">>),
                   Join(CellsUnder(csv.header, csv.rows[n],
                                   n_pairs \o <<"/">> \o n_right \o <<"/">>), <<"|">>),
                   Join(AnswersUnder(csv.header, csv.rows[n],
                                     n_pairs \o <<"/">> \o n_answers \o <<"/">>),
                        <<",">>)>>]]

\* C8: csv_to_json takes the flattened dialect exactly when a header name
\* contains "/", and a match row in flattened columns gets the same pairs
\* as the normal-dialect row with the same left, right and answers.
C8_FlattenedEquivalent ==
    (conv_last = "csv_to_json" /\ conv_error = "none") =>
        /\ dialect = "flattened" <=>
              \E n \in 1..Len(csv_file.header) : Contains(csv_file.header[n], "/")
        /\ dialect = "flattened" =>
              \A n \in 1..Len(csv_file.rows) :
                  TypeOf(json_out.rows[n]) = VStr(t_match) =>
                      SamePairs(Get(json_out.rows[n], n_pairs),
                                Get(csv_to_json(NormalEquivalent(csv_file))[n], n_pairs))

\* C9: json_to_csv on an empty array raises "JSON is empty" and leaves the
\* CSV path as it was; csv_to_json on a CSV with a header and no data row
\* succeeds and writes the empty array.
C9_EmptyInputs ==
    [][/\ (conv_last' = "json_to_csv" /\ json_file.exists /\ json_file.rows = <<>>)
            => (conv_error' = "JSON is empty" /\ csv_file' = csv_file)
       /\ (conv_last' = "csv_to_json" /\ csv_file.exists /\ csv_file.rows = <<>>)
            => (conv_error' = "none"
                /\ json_out' = [exists |-> TRUE, rows |-> <<>>])]_vars

C9_Witness ==
    /\ json_file = [exists |-> TRUE, rows |-> <<>>]
    /\ conv_last = "json_to_csv"
    /\ conv_error = "JSON is empty"
    /\ csv_file \in HeaderOnlyCsvs

\* C13: a record csv_to_json writes for a row whose type is not match has
\* no pairs, left, right or answers key and has a wrong_answers key
\* holding a list, in both dialects.
C13_NonMatchRecord ==
    (conv_last = "csv_to_json" /\ conv_error = "none") =>
        \A n \in 1..Len(json_out.rows) :
            LET row == json_out.rows[n]
            IN  TypeOf(row) # VStr(t_match) =>
                    /\ \A k \in {n_pairs, n_left, n_right, n_answers} : ~Has(row, k)
                    /\ Has(row, n_wrong_answers)
                    /\ Get(row, n_wrong_answers).kind = "list"

\* C14: a record csv_to_json writes for a row whose type is match has
\* pairs with the keys left, right and answers and has none of the keys
\* left, right, answers, correct, wrong_answers.
C14_MatchRecord ==
    (conv_last = "csv_to_json" /\ conv_error = "none") =>
        \A n \in 1..Len(json_out.rows) :
            LET row == json_out.rows[n]
            IN  TypeOf(row) = VStr(t_match) =>
                    /\ Has(row, n_pairs)
                    /\ Get(row, n_pairs).kind = "dict"
                    /\ Keys(Get(row, n_pairs).v) = {n_left, n_right, n_answers}
                    /\ \A k \in {n_left, n_right, n_answers, n_correct,
                                  n_wrong_answers} : ~Has(row, k)

FixedColumns ==
    <<n_type, n_question, n_correct, n_wrong_answers, n_left, n_right, n_answers>>

\* C15 as stated: the header json_to_csv writes is type, question, correct,
\* wrong_answers, left, right, answers in that order, optionally followed
\* by pairs, and every data row has a cell for each of these columns.
C15_FixedHeader ==
    exported =>
        /\ csv_file.header \in {FixedColumns, FixedColumns \o <<n_pairs>>}
        /\ \A n \in 1..Len(csv_file.rows) :
              Len(csv_file.rows[n]) = Len(csv_file.header)

\* C15: the header json_to_csv writes is the union of the keys of the
\* input records in ascending order, one data row per record in the
\* input order, and every data row has a cell for each header column,
\* empty when the record lacks the field.
C15_SortedHeader ==
    exported =>
        /\ {csv_file.header[c] : c \in 1..Len(csv_file.header)}
              = UNION {Keys(json_file.rows[n]) : n \in 1..Len(json_file.rows)}
        /\ \A a, b \in 1..Len(csv_file.header) :
              a < b => StrLess(csv_file.header[a], csv_file.header[b])
        /\ Len(csv_file.rows) = Len(json_file.rows)
        /\ \A n \in 1..Len(csv_file.rows) :
              /\ Len(csv_file.rows[n]) = Len(csv_file.header)
              /\ \A c \in 1..Len(csv_file.header) :
                    ~Has(json_file.rows[n], csv_file.header[c])
                        => csv_file.rows[n][c] = <<>>

C15_Witness ==
    /\ exported
    /\ conv_last = "json_to_csv"
    /\ json_file.rows = <<J_multiple, J_match>>
    /\ csv_file.header = <<n_correct, n_pairs, n_question, n_type, n_wrong_answers>>
    /\ csv_file.rows[1][2] = <<>>
    /\ csv_file.rows[2][1] = <<>>
    /\ csv_file.rows[2][5] = <<>>

\* ------------------------------------------------- score viewer properties
Chains ==
    [correct |-> chain_correct, wrong |-> chain_wrong,
     unanswered |-> chain_unanswered, total |-> chain_total,
     duration_s |-> chain_duration_s, timestamp |-> chain_timestamp]

\* value is what the first key of the chain present in s holds, or the
\* default when s has no key of the chain
TakesFirst(s, chain, value, default) ==
    IF \E j \in 1..Len(chain) : Has(s, chain[j])
    THEN \E j \in 1..Len(chain) :
            /\ Has(s, chain[j])
            /\ \A k \in 1..(j - 1) : ~Has(s, chain[k])
            /\ value = Get(s, chain[j])
    ELSE value = default

C17_SaveFailureReported ==
    shown_stats # <<>> =>
        /\ error = "none"
        /\ Cardinality({n \in 1..Len(file_ops) : file_ops[n] = "save"}) = 1
        /\ save_report = (IF save_ok THEN <<>> ELSE <<"failed_to_save">>)

\* ---------------------------------------------------- flashcards properties
\* the user confirms the exit asked at the first (n = 1) or second prompt
ConfirmsExit(n) ==
    /\ fc_pc = (IF n = 1 THEN "confirm1" ELSE "confirm2")
    /\ fc_last'.kind = "confirm" /\ fc_last'.yes

\* the user declines the exit asked at the first or second prompt
DeclinesExit(n) ==
    /\ fc_pc = (IF n = 1 THEN "confirm1" ELSE "confirm2")
    /\ fc_last'.kind = "confirm" /\ ~fc_last'.yes

\* C18: no step of flashcards_mode reads or writes the score file; a
\* confirmed exit ends the pass at once (after the first prompt the card's
\* answer is not revealed, after either prompt no later card is shown); a
\* declined exit goes on with the current card: after the first prompt to
\* its answer, after the second prompt to the rest of the loop.
C18_FlashcardsExit ==
    [][ /\ score_file' = score_file
        /\ file_ops' = file_ops
        /\ ConfirmsExit(1) \/ ConfirmsExit(2) =>
              /\ fc_pc' = "done"
              /\ fc_outcome' = "exited"
              /\ fc_revealed' = fc_revealed
              /\ fc_shown' = fc_shown
        /\ fc_pc = "done" => UNCHANGED <<fc_shown, fc_revealed>>
        /\ DeclinesExit(1) =>
              /\ fc_k' = fc_k
              /\ fc_shown' = fc_shown
              /\ fc_outcome' # "exited"
              /\ \/ fc_revealed' = Append(fc_revealed, fc_k) /\ fc_pc' = "prompt2"
                 \/ fc_outcome' \in {"IndexError", "ValueError"}
        /\ DeclinesExit(2) =>
              /\ fc_revealed' = fc_revealed
              /\ IF fc_k < Len(fc_cards)
                 THEN fc_shown' = Append(fc_shown, fc_k + 1) /\ fc_pc' = "prompt1"
                 ELSE fc_outcome' = "finished"
      ]_vars

\* exits were confirmed at the first prompt of a card that was not the last
\* of the pass, and declined at the first prompt of a card then revealed
C18_Witness ==
    /\ fc_outcome = "exited"
    /\ fc_last.kind = "confirm" /\ fc_last.yes
    /\ Len(fc_cards) = 2
    /\ fc_shown = <<1>>
    /\ fc_revealed = <<>>

C18_WitnessDeclined ==
    /\ fc_pc = "prompt2"
    /\ fc_last.kind = "confirm" /\ ~fc_last.yes
    /\ fc_revealed = <<1>>

\* --------------------------------------------------------- cache properties
\* the cache entry of the module whose get_questions is called in this step
CacheOf(module) == IF module = "core" THEN core_cache ELSE app_cache

\* what get_questions does in a step that calls it in `module`
CallReturnsCurrent(module) ==
    gq_last'.call = module =>
        /\ gq_last'.error = "none"
        /\ gq_last'.value = (IF q_file.exists THEN q_file.data ELSE <<>>)
        /\ q_file.exists =>
              /\ gq_last'.loaded =
                    ~(CacheOf(module).present
                      /\ CacheOf(module).mtime = q_file.mtime)
              /\ CacheOf(module)' =
                    [present |-> TRUE, mtime |-> q_file.mtime,
                     data |-> q_file.data]

\* C19: every get_questions call returns the file's content as of the
\* call, the empty list for a missing file; it reloads and replaces the
\* cache entry exactly when the file's mtime differs from the cached one.
C19_ReturnsCurrent ==
    [][CallReturnsCurrent("core") /\ CallReturnsCurrent("app")]_vars

\* the same of app.py's copy alone
AppReturnsCurrent == [][CallReturnsCurrent("app")]_vars

\* ---------------------------------------------------- caller's list
\* C20: no step of a quiz session or of a flashcards pass changes the list
\* its caller holds: the same records in the same order.
C20_CallerListUnchanged == [][questions' = questions]_vars

\* the same of the two functions of core/engine.py alone
EngineListUnchanged ==
    [][app_pc' = app_pc => questions' = questions]_vars

\* ---------------------------------------------------- prompt properties
\* C21: in a matching question, a declined quit at the prompt of left item
\* i leaves the handler at the prompt of the same item with every pair
\* collected so far (unless the time of the question is up by then): no
\* item is passed over.
C21_MatchDeclineSameItem ==
    [][(/\ pc = "confirm"
        /\ shuffled[qi].type = "match"
        /\ ~Returned("quit")
        /\ ~(Returned("timeout")
             /\ handled'[Len(handled) + 1].msg = "time_up_not_completed"))
        => /\ pc' = "input"
           /\ qi' = qi
           /\ i' = i
           /\ user_mapping' = user_mapping]_vars

\* C22: in a choice or fill-in question every prompt, the first one and
\* each one after a declined quit or an invalid input, gets as deadline
\* the budget minus all the time elapsed since the question started, and an
\* input is judged correct or wrong only out of a prompt whose deadline had
\* not passed, so less than the budget after the question started.
C22_SingleBudget ==
    [][(pc # "idle"
        /\ shuffled[qi].type \in {"multiple", "truefalse", "fillin"}) =>
          /\ (pc' = "input" /\ qi' = qi) =>
                /\ elapsed' >= elapsed
                /\ remaining' = remaining_time - elapsed'
                /\ remaining' > 0
          /\ (Returned("correct") \/ Returned("wrong")) =>
                /\ pc = "input"
                /\ remaining = remaining_time - elapsed
                /\ remaining > 0]_vars

\* a fill-in question is prompted again, after a declined quit that took
\* DelayStep seconds, with what is left of the budget
C22_Witness ==
    /\ pc = "input"
    /\ shuffled[qi].type = "fillin"
    /\ elapsed = DelayStep
    /\ remaining = remaining_time - DelayStep

\* the line typed in this step at a prompt of a question of type ty, as the
\* handler reads it for its tests: trimmed, in lower case
TypedAt(types) ==
    /\ hd_pc = "input"
    /\ hd_q.type \in types
    /\ hd_event'.kind = "line"

Typed == lower(strip(hd_event'.text))

\* the option rendered under the label typed in this step
Chosen == hd_options[IndexOf(ascii_lowercase(Len(hd_options)), Typed)]

\* C23: in a multiple or truefalse question a line that is neither "x" nor
\* the label of a rendered option leaves the question open, prompted again
\* with the remaining time and without outcome; the label of a rendered
\* option ends it, correct when the option under the label equals correct
\* without regard to case and surrounding blanks, wrong otherwise.
C23_ChoiceInput ==
    [][(TypedAt({"multiple", "truefalse"}) /\ Typed # <<"x">>) =>
          IF InSeq(ascii_lowercase(Len(hd_options)), Typed)
          THEN /\ hd_pc' = "returned"
               /\ hd_result' =
                    IF lower(strip(Chosen)) = lower(strip(hd_q.correct))
                    THEN "correct" ELSE "wrong"
          ELSE /\ hd_pc' = "input"
               /\ hd_result' = "none"
               /\ hd_remaining' = remaining_time - hd_elapsed'
               /\ hd_elapsed' >= hd_elapsed]_vars

\* the option "p " was chosen by its label where correct is " P"
C23_Witness ==
    /\ hd_q = H_multiple
    /\ hd_result = "correct"
    /\ hd_event.kind = "line"
    /\ hd_options[IndexOf(ascii_lowercase(Len(hd_options)),
                          lower(strip(hd_event.text)))] = <<"p", " ">>

\* C24: in a fill-in question every line other than "x" ends the question
\* at once, correct when the trimmed line equals correct without regard to
\* case and wrong otherwise; "x" asks for the quit confirmation, also where
\* correct is "x".
C24_FillinInput ==
    [][TypedAt({"fillin"}) =>
          IF Typed = <<"x">>
          THEN hd_pc' = "confirm" /\ hd_result' = "none"
          ELSE /\ hd_pc' = "returned"
               /\ hd_result' =
                    IF lower(strip(hd_event'.text)) = lower(hd_q.correct)
                    THEN "correct" ELSE "wrong"]_vars

\* "p" was typed where correct is "P"
C24_Witness ==
    /\ hd_q = Q_fillin
    /\ hd_result = "correct"
    /\ hd_event.kind = "line"
    /\ strip(hd_event.text) # hd_q.correct

\* C27: whatever the user did at a prompt before its deadline, the worker
\* thread strategy and the select strategy of input_with_timeout return
\* the same value for it, and the call made returned that value.
C27_SameContract ==
    hd_event.kind \in {"line", "eof"} =>
        /\ hd_got = input_with_timeout("Windows", hd_event)
        /\ hd_got = input_with_timeout("Linux", hd_event)

\* C25: csv_to_json writes one output record per CSV data row, in row
\* order, whatever the cells contain: the conversion is never aborted and
\* no row is dropped.
C25_OneRecordPerRow ==
    (conv_last = "csv_to_json" /\ csv_file.exists) =>
        /\ conv_error = "none"
        /\ Len(json_out.rows) = Len(csv_file.rows)
        /\ \A n \in 1..Len(csv_file.rows) :
               Get(json_out.rows[n], n_question) = VStr(csv_file.rows[n][2])

\* C26: in the flattened dialect pairs.left and pairs.right of a match row
\* list the non-empty cells of the pairs/left/* and pairs/right/* columns
\* in the order of those columns in the CSV header, as wrong_answers lists
\* the wrong_answers/* columns.
C26_PairsInHeaderOrder ==
    (conv_last = "csv_to_json" /\ conv_error = "none" /\ csv_file.exists
        /\ is_flattened(csv_file.header)) =>
        \A n \in 1..Len(csv_file.rows) :
            LET row == RowDict(csv_file.header, csv_file.rows[n])
                out == json_out.rows[n]
                left_prefix == n_pairs \o <<"/">> \o n_left \o <<"/">>
                right_prefix == n_pairs \o <<"/">> \o n_right \o <<"/">>
            IN  /\ Get(out, n_wrong_answers)
                     = VList(GatherItems(row, csv_file.header, n_wrong_answers \o <<"/">>))
                /\ TypeOf(out) = VStr(t_match) =>
                     /\ Get(Get(out, n_pairs).v, n_left)
                          = VList(GatherItems(row, csv_file.header, left_prefix))
                     /\ Get(Get(out, n_pairs).v, n_right)
                          = VList(GatherItems(row, csv_file.header, right_prefix))

\* C28: with the worker-thread strategy every line typed is read by the
\* worker of the call that is current when it is typed, never by a worker
\* abandoned after a timeout, and is what that call returns.
C28_LineToCurrentPrompt ==
    \A n \in 1..Len(th_lines) :
        /\ th_lines[n].reader = th_lines[n].current
        /\ th_returned[th_lines[n].current].done
        /\ th_returned[th_lines[n].current].got = th_value[th_lines[n].current]

\* C29: when save_json returns False the target file holds what it held
\* before the call and the cache entry of its path is unchanged; when it
\* returns True the file holds the data and the cache entry holds the data
\* with the file's new mtime.
C29_SaveAllOrNothing ==
    sv_last.called =>
        IF sv_last.ok
        THEN /\ sv_file.state = "valid"
             /\ sv_file.data = sv_last.data
             /\ sv_cache = [present |-> TRUE, mtime |-> sv_file.mtime,
                            data |-> sv_last.data]
        ELSE /\ sv_file = sv_last.file
             /\ sv_cache = sv_last.cache

\* a running quiz_session is eventually left, by return or by exception
SessionLeft == (outcome = "running") ~> (pc = "idle")

\* C30: whatever inputs arrive, while time advances and confirmations are
\* answered, every handler eventually returns correct, wrong, timeout or
\* quit, and a running quiz_session eventually ends by quit or by
\* completing and saving once.
C30_EndsByQuitOrSave ==
    (outcome = "running") ~>
        /\ pc = "idle"
        /\ \A n \in 1..Len(handled) :
               handled[n].result \in {"correct", "wrong", "timeout", "quit"}
        /\ \/ outcome = "quit"
           \/ outcome = "completed" /\ file_ops = <<"load", "save">>

====
